---- MODULE Spec2Model ----
(***************************************************************************)
(* A model of the MOS 6502 core of atari.rs: the register file             *)
(* (cpu/register.rs), the addressing resolver and the stack helpers        *)
(* (cpu/addressing.rs), the ALU (cpu/alu.rs), the instruction handlers     *)
(* (cpu/mnemonics.rs) and the Cpu object with cold_reset, warm_reset and   *)
(* step (cpu/mod.rs).                                                      *)
(*                                                                         *)
(* Memory is the 65536-byte slice owned by the Cpu.  It is represented     *)
(* sparsely: a function on the addresses that were loaded or written, and  *)
(* every other address holds 0 (main.rs starts from [0; 65536]).           *)
(*                                                                         *)
(* Rust checks integer overflow in a debug build (the operation panics)    *)
(* and wraps in a release build.  The variable build records which of the  *)
(* two the program was compiled as; operations written with plain + and -  *)
(* in the source take the flag `checked` and report a panic when it is set *)
(* and the result leaves the type's range.                                 *)
(***************************************************************************)
EXTENDS Integers, Sequences, FiniteSets, TLC

VARIABLES memory, register, opcodes, cycles, build, status, ret, hist, resets

vars == <<memory, register, opcodes, cycles, build, status, ret, hist, resets>>

-----------------------------------------------------------------------------
(* Bounds of the exploration *)

\* step is not taken once the cycle counter has reached this value
MaxCycles == 32

\* number of operations whose record is kept in hist
HistLen == 2

\* number of calls of cold_reset and warm_reset in one run
MaxResets == 1

-----------------------------------------------------------------------------
(* Integer widths and bitwise operators *)

U8(x) == x % 256

U16(x) == x % 65536

\* x as i8 / x as i16 for x already in the unsigned range
AsI8(x) == IF x > 127 THEN x - 256 ELSE x

AsI16(x) == IF x > 32767 THEN x - 65536 ELSE x

RECURSIVE BitAnd(_, _)
BitAnd(a, b) ==
    IF a = 0 \/ b = 0 THEN 0
    ELSE (a % 2) * (b % 2) + 2 * BitAnd(a \div 2, b \div 2)

RECURSIVE BitOr(_, _)
BitOr(a, b) ==
    IF a = 0 THEN b
    ELSE IF b = 0 THEN a
    ELSE ((a % 2) + (b % 2) - (a % 2) * (b % 2)) + 2 * BitOr(a \div 2, b \div 2)

RECURSIVE BitXor(_, _)
BitXor(a, b) ==
    IF a = 0 THEN b
    ELSE IF b = 0 THEN a
    ELSE ((a + b) % 2) + 2 * BitXor(a \div 2, b \div 2)

\* bit i of v
Bit(v, i) == (v \div (2 ^ i)) % 2

-----------------------------------------------------------------------------
(* Memory: memory[i] on the 65536-byte slice *)

Rd(mem, address) == IF address \in DOMAIN mem THEN mem[address] ELSE 0

Wr(mem, address, value) ==
    [i \in (DOMAIN mem) \cup {address} |-> IF i = address THEN value ELSE mem[i]]

-----------------------------------------------------------------------------
(* Register file (cpu/register.rs) *)

Register_new == [pc |-> 1536, s |-> 255, a |-> 0, x |-> 0, y |-> 0, p |-> 32]

increment_pc(r) == [r EXCEPT !.pc = U16(r.pc + 1)]

set_pc(r, value) == [r EXCEPT !.pc = value]

push_s(r) == [r EXCEPT !.s = U8(r.s - 1)]

pull_s(r) == [r EXCEPT !.s = U8(r.s + 1)]

set_s(r, value) == [r EXCEPT !.s = value]

carry_bit(r) == BitAnd(r.p, 1) # 0

zero_bit(r) == BitAnd(r.p, 2) # 0

overflow_bit(r) == BitAnd(r.p, 64) # 0

decimal_bit(r) == BitAnd(r.p, 8) # 0

negative_bit(r) == BitAnd(r.p, 128) # 0

set_negative_bit(r, value) ==
    [r EXCEPT !.p = IF value THEN BitOr(r.p, 128) ELSE BitAnd(r.p, 127)]

set_overflow_bit(r, value) ==
    [r EXCEPT !.p = IF value THEN BitOr(r.p, 64) ELSE BitAnd(r.p, 191)]

set_decimal_bit(r, value) ==
    [r EXCEPT !.p = IF value THEN BitOr(r.p, 8) ELSE BitAnd(r.p, 247)]

set_break_bit(r, value) ==
    [r EXCEPT !.p = IF value THEN BitOr(r.p, 16) ELSE BitAnd(r.p, 239)]

set_interrupt_bit(r, value) ==
    [r EXCEPT !.p = IF value THEN BitOr(r.p, 4) ELSE BitAnd(r.p, 251)]

set_zero_bit(r, value) ==
    [r EXCEPT !.p = IF value THEN BitOr(r.p, 2) ELSE BitAnd(r.p, 253)]

set_carry_bit(r, value) ==
    [r EXCEPT !.p = IF value THEN BitOr(r.p, 1) ELSE BitAnd(r.p, 254)]

\* set_p storing the byte as given
set_p_raw(r, value) == [r EXCEPT !.p = value]

set_p(r, value) == [r EXCEPT !.p = BitOr(value, 32)]

-----------------------------------------------------------------------------
(* Stack helpers (cpu/addressing.rs).  m is [reg, mem, acc, idx]: the       *)
(* register file, the memory, the log of the stack accesses of the current *)
(* step and the indices at which the step has read or written the memory   *)
(* slice so far.                                                           *)

\* stack_push decrementing S before the write
stack_push_predecrement(m, value) ==
    LET reg2 == push_s(m.reg)
        stack_address == reg2.s + 256
    IN  [reg |-> reg2,
         mem |-> Wr(m.mem, stack_address, value),
         acc |-> Append(m.acc, [kind |-> "push", address |-> stack_address,
                                value |-> value, s_old |-> m.reg.s,
                                s_new |-> reg2.s]),
         idx |-> Append(m.idx, stack_address)]

stack_push(m, value) ==
    LET stack_address == m.reg.s + 256
        reg2 == push_s(m.reg)
    IN  [reg |-> reg2,
         mem |-> Wr(m.mem, stack_address, value),
         acc |-> Append(m.acc, [kind |-> "push", address |-> stack_address,
                                value |-> value, s_old |-> m.reg.s,
                                s_new |-> reg2.s]),
         idx |-> Append(m.idx, stack_address)]

\* the pulled byte is the value field of the last entry of acc
stack_pull(m) ==
    LET reg2 == pull_s(m.reg)
        stack_address == reg2.s + 256
    IN  [reg |-> reg2,
         mem |-> m.mem,
         acc |-> Append(m.acc, [kind |-> "pull", address |-> stack_address,
                                value |-> Rd(m.mem, stack_address),
                                s_old |-> m.reg.s, s_new |-> reg2.s]),
         idx |-> Append(m.idx, stack_address)]

pulled(m) == m.acc[Len(m.acc)].value

-----------------------------------------------------------------------------
(* Addressing resolver (cpu/addressing.rs) *)

\* reads is not a field of the source's struct: it lists the indices at
\* which the resolving function read the memory slice, in order
MemoryCell(address, value, in_bounds, cyc, bytes, reads) ==
    [address |-> address, value |-> value, in_bounds |-> in_bounds,
     cycles |-> cyc, bytes |-> bytes, reads |-> reads]

implied == MemoryCell(0, 0, TRUE, 0, 0, <<>>)

immediate(value) == MemoryCell(value, U8(value), TRUE, 0, 1, <<>>)

\* the accumulator cell reporting one cycle
accumulator_costing_a_cycle(r) == MemoryCell(0, r.a, TRUE, 1, 0, <<>>)

accumulator(r) == MemoryCell(0, r.a, TRUE, 0, 0, <<>>)

\* the displacement as i16
relative_offset(address) == IF address > 127 THEN address - 256 ELSE address

\* register.pc() as i16 + relative leaves the range of i16
relative_overflows(r, address) ==
    LET sum == AsI16(r.pc) + relative_offset(address)
    IN  sum < -32768 \/ sum > 32767

\* The cell's address is (i16 sum) as usize: a negative sum is sign-extended
\* to the width of usize.  It is kept here as the signed integer; its low 16
\* bits, the only ones the callers use, are U16(address).
relative(r, address) ==
    LET sum == AsI16(r.pc) + relative_offset(address)
        new_address == AsI16(U16(sum))
        in_bounds == BitAnd(r.pc, 65280) = BitAnd(U16(new_address), 65280)
    IN  MemoryCell(new_address, 0, in_bounds, 1, 1, <<>>)

zeropage(mem, address) ==
    LET new_address == BitAnd(address, 255)
    IN  MemoryCell(new_address, Rd(mem, new_address), TRUE, 1, 1, <<new_address>>)

\* zeropage_x without the mask, reporting a page crossing as absolute_x does
zeropage_x_unmasked(mem, r, address) ==
    LET new_address == address + r.x
        in_bounds == BitAnd(new_address, 65280) = BitAnd(address, 65280)
    IN  MemoryCell(new_address, Rd(mem, new_address), in_bounds, 2, 1, <<new_address>>)

zeropage_x(mem, r, address) ==
    LET new_address == BitAnd(address + r.x, 255)
    IN  MemoryCell(new_address, Rd(mem, new_address), TRUE, 2, 1, <<new_address>>)

zeropage_y(mem, r, address) ==
    LET new_address == BitAnd(address + r.y, 255)
    IN  MemoryCell(new_address, Rd(mem, new_address), TRUE, 2, 1, <<new_address>>)

absolute(mem, address) ==
    LET new_address == BitAnd(address, 65535)
    IN  MemoryCell(new_address, Rd(mem, new_address), TRUE, 2, 2, <<new_address>>)

\* absolute_x without the mask to 16 bits
absolute_x_unmasked(mem, r, address) ==
    LET new_address == address + r.x
        in_bounds == BitAnd(new_address, 65280) = BitAnd(address, 65280)
    IN  MemoryCell(new_address, Rd(mem, new_address), in_bounds, 3, 2, <<new_address>>)

absolute_x(mem, r, address) ==
    LET new_address == BitAnd(address + r.x, 65535)
        in_bounds == BitAnd(new_address, 65280) = BitAnd(address, 65280)
    IN  MemoryCell(new_address, Rd(mem, new_address), in_bounds, 3, 2, <<new_address>>)

absolute_y(mem, r, address) ==
    LET new_address == BitAnd(address + r.y, 65535)
        in_bounds == BitAnd(new_address, 65280) = BitAnd(address, 65280)
    IN  MemoryCell(new_address, Rd(mem, new_address), in_bounds, 3, 2, <<new_address>>)

\* indirect with the carry of the pointer's low byte going into its high byte
indirect_carrying(mem, address) ==
    LET next_cell_address == BitAnd(address + 1, 65535)
        new_address == Rd(mem, address) + Rd(mem, next_cell_address) * 256
    IN  MemoryCell(new_address, 0, TRUE, 4, 2, <<address, next_cell_address>>)

indirect(mem, address) ==
    LET next_cell_address == BitAnd(address + 1, 255) + BitAnd(address, 65280)
        new_address == Rd(mem, address) + Rd(mem, next_cell_address) * 256
    IN  MemoryCell(new_address, 0, TRUE, 4, 2, <<address, next_cell_address>>)

indirect_x(mem, r, address) ==
    LET zp_address == BitAnd(address + r.x, 255)
        new_address == Rd(mem, zp_address) + Rd(mem, zp_address + 1) * 256
    IN  MemoryCell(new_address, Rd(mem, new_address), TRUE, 4, 1,
                   <<zp_address, zp_address + 1, new_address>>)

indirect_y(mem, r, address) ==
    LET base == Rd(mem, BitAnd(address, 255)) + Rd(mem, BitAnd(address, 255) + 1) * 256
        new_address == BitAnd(base + r.y, 65535)
        in_bounds == BitAnd(new_address, 65280) = BitAnd(base, 65280)
    IN  MemoryCell(new_address, Rd(mem, new_address), in_bounds, 4, 1,
                   <<BitAnd(address, 255), BitAnd(address, 255) + 1, new_address>>)

\* the 16-bit operand at pc: the low byte, then the high byte
operand16(mem, r) == Rd(mem, increment_pc(r).pc) * 256 + Rd(mem, r.pc)

\* Addressing::read: the cell, the register file with PC advanced past the
\* operand, whether the resolution panicked, and the indices at which the
\* memory slice was read: the operand bytes at PC, then the cell's reads
addressing_read(mode, mem, r, checked) ==
    LET r1 == increment_pc(r)
        r2 == increment_pc(r1)
        byte == Rd(mem, r.pc)
        word == operand16(mem, r)
        none == <<>>
        one == <<r.pc>>
        two == <<r.pc, r1.pc>>
        out(cell, reg, fetched) ==
            [cell |-> cell, reg |-> reg, panic |-> FALSE, idx |-> fetched \o cell.reads]
    IN  CASE mode = "Implied" -> out(implied, r, none)
          [] mode = "Accumulator" -> out(accumulator(r), r, none)
          [] mode = "Immediate" -> out(immediate(byte), r1, one)
          [] mode = "Relative" ->
                [cell |-> relative(r1, byte), reg |-> r1,
                 panic |-> checked /\ relative_overflows(r1, byte), idx |-> one]
          [] mode = "ZeroPage" -> out(zeropage(mem, byte), r1, one)
          [] mode = "ZeroPageX" -> out(zeropage_x(mem, r1, byte), r1, one)
          [] mode = "ZeroPageY" -> out(zeropage_y(mem, r1, byte), r1, one)
          [] mode = "Absolute" -> out(absolute(mem, word), r2, two)
          [] mode = "AbsoluteX" -> out(absolute_x(mem, r2, word), r2, two)
          [] mode = "AbsoluteY" -> out(absolute_y(mem, r2, word), r2, two)
          [] mode = "Indirect" -> out(indirect(mem, word), r2, two)
          [] mode = "IndirectX" -> out(indirect_x(mem, r1, byte), r1, one)
          [] mode = "IndirectY" -> out(indirect_y(mem, r1, byte), r1, one)

-----------------------------------------------------------------------------
(* ALU (cpu/alu.rs) *)

AluResult(value, negative, overflow, zero, carry, panic) ==
    [value |-> value, negative |-> negative, overflow |-> overflow,
     zero |-> zero, carry |-> carry, panic |-> panic]

calculate_nz_bits(operand) == [negative |-> operand > 127, zero |-> operand = 0]

\* bin_add losing the carry out of the addition of the carry in
bin_add_first_carry_only(a, b, initial_carry) ==
    LET result == U8(a + b)
        computed_carry == a + b > 255
    IN  IF initial_carry
        THEN [value |-> U8(result + 1), carry |-> computed_carry, panic |-> FALSE]
        ELSE [value |-> result, carry |-> computed_carry, panic |-> FALSE]

bin_add(a, b, initial_carry) ==
    LET result == U8(a + b)
        computed_carry == a + b > 255
    IN  IF initial_carry
        THEN [value |-> U8(result + 1), carry |-> computed_carry \/ result + 1 > 255,
              panic |-> FALSE]
        ELSE [value |-> result, carry |-> computed_carry, panic |-> FALSE]

\* bin_subtract ignoring the borrow of the subtraction of the carry in
bin_subtract_first_borrow_only(a, b, initial_carry) ==
    LET result == U8(a - b)
        computed_carry == a >= b
    IN  IF ~initial_carry
        THEN [value |-> U8(result - 1), carry |-> computed_carry, panic |-> FALSE]
        ELSE [value |-> result, carry |-> computed_carry, panic |-> FALSE]

bin_subtract(a, b, initial_carry) ==
    LET result == U8(a - b)
        computed_carry == a >= b
    IN  IF ~initial_carry
        THEN [value |-> U8(result - 1), carry |-> computed_carry /\ result >= 1,
              panic |-> FALSE]
        ELSE [value |-> result, carry |-> computed_carry, panic |-> FALSE]

bin_overflow(operation, a, b, initial_carry) ==
    LET carry_value == IF initial_carry THEN 1 ELSE 0
        left_operand == AsI8(a)
        right_operand == AsI8(b)
        v_sum == IF operation = "-"
                 THEN left_operand - right_operand - (1 - carry_value)
                 ELSE left_operand + right_operand + carry_value
    IN  v_sum < -128 \/ v_sum > 127

\* a + 0x06 is a u8 addition
bcd_valid(a, checked) ==
    LET t1 == U8(a + 6)
        t2 == BitXor(t1, a)
        t3 == BitAnd(t2, 16)
    IN  [value |-> t3 = 0, panic |-> checked /\ a + 6 > 255]

RECURSIVE bcd_add(_, _, _, _)
\* bcd_add adding the carry in as a binary 1
bcd_add_binary_carry_in(a, b, initial_carry, checked) ==
    LET t1 == a + 1638
        t2 == t1 + b
        t4 == BitXor(t2, BitXor(t1, b))
        t5 == BitAnd(65535 - t4, 4368)
        t7 == U16(t2 - BitOr(t5 \div 4, t5 \div 8))
        result == BitAnd(t7, 255)
        computed_carry == BitAnd(t7, 65280) > 0
    IN  IF initial_carry
        THEN [value |-> U8(result + 1), carry |-> computed_carry \/ result = 255,
              panic |-> FALSE]
        ELSE [value |-> result, carry |-> computed_carry, panic |-> FALSE]

bcd_add(a, b, initial_carry, checked) ==
    LET t1 == a + 1638
        t2 == t1 + b
        t3 == BitXor(t1, b)
        t4 == BitXor(t2, t3)
        va == bcd_valid(a, checked)
        vb == bcd_valid(b, checked)
        \* !bcd_valid(a) && !bcd_valid(b) && t4 != 0, evaluated left to right
        valid_panic == va.panic \/ (~va.value /\ vb.panic)
        carry_correction == IF ~va.value /\ ~vb.value /\ t4 # 0 THEN 16 ELSE 0
        t5 == BitAnd(65535 - t4, 4368)
        t6 == BitOr(t5 \div 4, t5 \div 8)
        \* t2 - t6 - carry_correction is a u16 subtraction
        t7 == U16(t2 - t6 - carry_correction)
        sub_panic == checked /\ t2 - t6 - carry_correction < 0
        result == BitAnd(t7, 255)
        computed_carry == BitAnd(t7, 65280) > 0
        out == bcd_add(result, 1, FALSE, checked)
    IN  IF valid_panic \/ sub_panic
        THEN [value |-> result, carry |-> computed_carry, panic |-> TRUE]
        ELSE IF initial_carry
        THEN [value |-> out.value, carry |-> computed_carry \/ out.carry,
              panic |-> out.panic]
        ELSE [value |-> result, carry |-> computed_carry, panic |-> FALSE]

\* 0x99 - a is a u8 subtraction
\* the nines complement: bcd_tencomp without the addition of 1
bcd_ninecomp(a, checked) ==
    [value |-> U8(153 - a), panic |-> checked /\ a > 153]

bcd_tencomp(a, checked) ==
    LET complement(out) ==
            [value |-> out.value, panic |-> (checked /\ a > 153) \/ out.panic]
    IN  complement(bcd_add(U8(153 - a), 1, FALSE, checked))

RECURSIVE bcd_subtract(_, _, _, _)
bcd_subtract(a, b, initial_carry, checked) ==
    LET computed_carry == a >= b
        \* t1 is bcd_tencomp(b), sum is bcd_add(a, t1, false)
        borrow(t1, sum) ==
            LET result == sum.value
                out == bcd_subtract(result, 1, TRUE, checked)
            IN  IF t1.panic \/ sum.panic
                THEN [value |-> result, carry |-> computed_carry, panic |-> TRUE]
                ELSE IF ~initial_carry
                THEN [value |-> out.value, carry |-> computed_carry /\ out.carry,
                      panic |-> out.panic]
                ELSE [value |-> result, carry |-> computed_carry, panic |-> FALSE]
        add(t1) == borrow(t1, bcd_add(a, t1.value, FALSE, checked))
    IN  add(bcd_tencomp(b, checked))

bcd_overflow(a, b, initial_carry) ==
    LET carry_value == IF initial_carry THEN 1 ELSE 0
        l == BitAnd(a, 240) \div 16
        r == BitAnd(b, 240) \div 16
        left_operand == IF l > 7 THEN l - 16 ELSE l
        right_operand == IF r > 7 THEN r - 16 ELSE r
        carry == IF BitAnd(a, 15) + BitAnd(b, 15) + carry_value > 9 THEN 1 ELSE 0
        v_sum == left_operand + right_operand + carry
    IN  v_sum < -8 \/ v_sum > 7

calculate_overflow_bit(operation, base, operand, carry, decimal) ==
    IF ~decimal \/ operation = "-"
    THEN bin_overflow(operation, base, operand, carry)
    ELSE bcd_overflow(base, operand, carry)

calculate_addition_result_in_proper_math_mode(base, operand, carry, decimal, checked) ==
    IF ~decimal THEN bin_add(base, operand, carry)
    ELSE bcd_add(base, operand, carry, checked)

calculate_subtraction_result_in_proper_math_mode(base, operand, carry, decimal, checked) ==
    IF ~decimal THEN bin_subtract(base, operand, carry)
    ELSE bcd_subtract(base, operand, carry, checked)

\* add taking N and Z from the binary sum in either math mode
alu_add_binary_nz(base, operand, carry_in, decimal, checked) ==
    LET overflow == calculate_overflow_bit("+", base, operand, carry_in, decimal)
        flags(rc, bin) ==
            LET nz == calculate_nz_bits(bin.value)
            IN  AluResult(rc.value, nz.negative, overflow, nz.zero, rc.carry, rc.panic)
    IN  flags(calculate_addition_result_in_proper_math_mode(base, operand, carry_in, decimal, checked),
              bin_add(base, operand, carry_in))

alu_add(base, operand, carry_in, decimal, checked) ==
    LET overflow == calculate_overflow_bit("+", base, operand, carry_in, decimal)
        \* rc is the (result, carry) of the calculation
        flags(rc) ==
            LET nz == calculate_nz_bits(rc.value)
            IN  AluResult(rc.value, nz.negative, overflow, nz.zero, rc.carry, rc.panic)
    IN  flags(calculate_addition_result_in_proper_math_mode(base, operand, carry_in, decimal, checked))

\* subtract taking its overflow bit from the addition of the same operands
alu_subtract_overflow_of_add(base, operand, carry_in, decimal, checked) ==
    LET overflow == calculate_overflow_bit("+", base, operand, carry_in, decimal)
        flags(rc) ==
            LET nz == calculate_nz_bits(rc.value)
            IN  AluResult(rc.value, nz.negative, overflow, nz.zero, rc.carry, rc.panic)
    IN  flags(calculate_subtraction_result_in_proper_math_mode(base, operand, carry_in, decimal, checked))

alu_subtract(base, operand, carry_in, decimal, checked) ==
    LET overflow == calculate_overflow_bit("-", base, operand, carry_in, decimal)
        \* rc is the (result, carry) of the calculation
        flags(rc) ==
            LET nz == calculate_nz_bits(rc.value)
            IN  AluResult(rc.value, nz.negative, overflow, nz.zero, rc.carry, rc.panic)
    IN  flags(calculate_subtraction_result_in_proper_math_mode(base, operand, carry_in, decimal, checked))

alu_and(base, operand) ==
    LET result == BitAnd(base, operand)
        nz == calculate_nz_bits(result)
    IN  AluResult(result, nz.negative, FALSE, nz.zero, FALSE, FALSE)

alu_or(base, operand) ==
    LET result == BitOr(base, operand)
        nz == calculate_nz_bits(result)
    IN  AluResult(result, nz.negative, FALSE, nz.zero, FALSE, FALSE)

alu_xor(base, operand) ==
    LET result == BitXor(base, operand)
        nz == calculate_nz_bits(result)
    IN  AluResult(result, nz.negative, FALSE, nz.zero, FALSE, FALSE)

alu_decrement(operand) ==
    LET result == U8(operand - 1)
        nz == calculate_nz_bits(result)
    IN  AluResult(result, nz.negative, FALSE, nz.zero, FALSE, FALSE)

alu_increment(operand) ==
    LET result == U8(operand + 1)
        nz == calculate_nz_bits(result)
    IN  AluResult(result, nz.negative, FALSE, nz.zero, FALSE, FALSE)

alu_shift_left(operand) ==
    LET result == U8(operand * 2)
        nz == calculate_nz_bits(result)
    IN  AluResult(result, nz.negative, FALSE, nz.zero, operand > 127, FALSE)

alu_shift_right(operand) ==
    LET result == operand \div 2
        nz == calculate_nz_bits(result)
    IN  AluResult(result, nz.negative, FALSE, nz.zero, BitAnd(operand, 1) = 1, FALSE)

-----------------------------------------------------------------------------
(* Instruction handlers (cpu/mnemonics.rs).  A handler takes the machine   *)
(* m = [reg, mem, acc, idx] after operand resolution and the resolved      *)
(* cell, and yields the machine after the instruction, the cycles it       *)
(* returns and whether it panicked.                                        *)

Ret(m, cyc) ==
    [reg |-> m.reg, mem |-> m.mem, acc |-> m.acc, idx |-> m.idx, cyc |-> cyc,
     panic |-> FALSE]

Panic(m) ==
    [reg |-> m.reg, mem |-> m.mem, acc |-> m.acc, idx |-> m.idx, cyc |-> 0,
     panic |-> TRUE]

WithReg(m, r) == [m EXCEPT !.reg = r]

\* memory[address] = value
Store(m, address, value) ==
    [m EXCEPT !.mem = Wr(m.mem, address, value), !.idx = Append(m.idx, address)]

\* memory[address] read by a handler
Load(m, address) == [m EXCEPT !.idx = Append(m.idx, address)]

penalty(cell) == IF cell.in_bounds THEN 0 ELSE 1

set_nz_from_alu_result_bits(r, result) ==
    set_zero_bit(set_negative_bit(r, result.negative), result.zero)

set_nzc_from_alu_result_bits(r, result) ==
    set_nz_from_alu_result_bits(set_carry_bit(r, result.carry), result)

set_nvzc_from_alu_result_bits(r, result) ==
    set_nzc_from_alu_result_bits(set_overflow_bit(r, result.overflow), result)

set_nz_from_raw_result_bits(r, result) ==
    set_zero_bit(set_negative_bit(r, result > 127), result = 0)

adc(m, cell, checked) ==
    LET store(result) ==
            LET r1 == [m.reg EXCEPT !.a = result.value]
            IN  IF result.panic THEN Panic(m)
                ELSE Ret(WithReg(m, set_nvzc_from_alu_result_bits(r1, result)),
                         2 + cell.cycles + penalty(cell))
    IN  store(alu_add(m.reg.a, cell.value, carry_bit(m.reg), decimal_bit(m.reg), checked))

sbc(m, cell, checked) ==
    LET store(result) ==
            LET r1 == [m.reg EXCEPT !.a = result.value]
            IN  IF result.panic THEN Panic(m)
                ELSE Ret(WithReg(m, set_nvzc_from_alu_result_bits(r1, result)),
                         2 + cell.cycles + penalty(cell))
    IN  store(alu_subtract(m.reg.a, cell.value, carry_bit(m.reg), decimal_bit(m.reg), checked))

and(m, cell) ==
    LET result == alu_and(m.reg.a, cell.value)
        r1 == [m.reg EXCEPT !.a = result.value]
    IN  Ret(WithReg(m, set_nz_from_alu_result_bits(r1, result)),
            2 + cell.cycles + penalty(cell))

eor(m, cell) ==
    LET result == alu_xor(m.reg.a, cell.value)
        r1 == [m.reg EXCEPT !.a = result.value]
    IN  Ret(WithReg(m, set_nz_from_alu_result_bits(r1, result)),
            2 + cell.cycles + penalty(cell))

ora(m, cell) ==
    LET result == alu_or(m.reg.a, cell.value)
        r1 == [m.reg EXCEPT !.a = result.value]
    IN  Ret(WithReg(m, set_nz_from_alu_result_bits(r1, result)),
            2 + cell.cycles + penalty(cell))

asl(m, cell) ==
    LET result == alu_shift_left(cell.value)
        r1 == set_nzc_from_alu_result_bits(m.reg, result)
    IN  IF cell.cycles = 0
        THEN Ret(WithReg(m, [r1 EXCEPT !.a = result.value]), 2)
        ELSE Ret(Store(WithReg(m, r1), cell.address, result.value), 4 + cell.cycles)

lsr(m, cell) ==
    LET result == alu_shift_right(cell.value)
        r1 == set_nzc_from_alu_result_bits(m.reg, result)
    IN  IF cell.cycles = 0
        THEN Ret(WithReg(m, [r1 EXCEPT !.a = result.value]), 2)
        ELSE Ret(Store(WithReg(m, r1), cell.address, result.value), 4 + cell.cycles)

\* rol shifting a zero, not the previous carry, into bit 0
rol_dropping_carry(m, cell) ==
    LET result == alu_shift_left(cell.value)
        result_value == BitAnd(result.value, 254)
        r1 == set_carry_bit(set_nz_from_raw_result_bits(m.reg, result_value), result.carry)
    IN  IF cell.cycles = 0
        THEN Ret(WithReg(m, [r1 EXCEPT !.a = result_value]), 2)
        ELSE Ret(Store(WithReg(m, r1), cell.address, result_value), 4 + cell.cycles)

rol(m, cell) ==
    LET previous_carry_bit == carry_bit(m.reg)
        result == alu_shift_left(cell.value)
        result_value == IF previous_carry_bit THEN BitOr(result.value, 1) ELSE BitAnd(result.value, 254)
        r1 == set_carry_bit(set_nz_from_raw_result_bits(m.reg, result_value), result.carry)
    IN  IF cell.cycles = 0
        THEN Ret(WithReg(m, [r1 EXCEPT !.a = result_value]), 2)
        ELSE Ret(Store(WithReg(m, r1), cell.address, result_value), 4 + cell.cycles)

\* ror putting the bit shifted out, not the previous carry, into bit 7
ror_rotating_8_bits(m, cell) ==
    LET result == alu_shift_right(cell.value)
        result_value == IF result.carry THEN BitOr(result.value, 128) ELSE BitAnd(result.value, 127)
        r1 == set_carry_bit(set_nz_from_raw_result_bits(m.reg, result_value), result.carry)
    IN  IF cell.cycles = 0
        THEN Ret(WithReg(m, [r1 EXCEPT !.a = result_value]), 2)
        ELSE Ret(Store(WithReg(m, r1), cell.address, result_value), 4 + cell.cycles)

ror(m, cell) ==
    LET previous_carry_bit == carry_bit(m.reg)
        result == alu_shift_right(cell.value)
        result_value == IF previous_carry_bit THEN BitOr(result.value, 128) ELSE BitAnd(result.value, 127)
        r1 == set_carry_bit(set_nz_from_raw_result_bits(m.reg, result_value), result.carry)
    IN  IF cell.cycles = 0
        THEN Ret(WithReg(m, [r1 EXCEPT !.a = result_value]), 2)
        ELSE Ret(Store(WithReg(m, r1), cell.address, result_value), 4 + cell.cycles)

bcc(m, cell) ==
    IF carry_bit(m.reg) THEN Ret(m, 2)
    ELSE Ret(WithReg(m, set_pc(m.reg, U16(cell.address))),
             2 + cell.cycles + penalty(cell))

bcs(m, cell) ==
    IF ~carry_bit(m.reg) THEN Ret(m, 2)
    ELSE Ret(WithReg(m, set_pc(m.reg, U16(cell.address))),
             2 + cell.cycles + penalty(cell))

beq(m, cell) ==
    IF ~zero_bit(m.reg) THEN Ret(m, 2)
    ELSE Ret(WithReg(m, set_pc(m.reg, U16(cell.address))),
             2 + cell.cycles + penalty(cell))

bmi(m, cell) ==
    IF ~negative_bit(m.reg) THEN Ret(m, 2)
    ELSE Ret(WithReg(m, set_pc(m.reg, U16(cell.address))),
             2 + cell.cycles + penalty(cell))

bne(m, cell) ==
    IF zero_bit(m.reg) THEN Ret(m, 2)
    ELSE Ret(WithReg(m, set_pc(m.reg, U16(cell.address))),
             2 + cell.cycles + penalty(cell))

bpl(m, cell) ==
    IF negative_bit(m.reg) THEN Ret(m, 2)
    ELSE Ret(WithReg(m, set_pc(m.reg, U16(cell.address))),
             2 + cell.cycles + penalty(cell))

bvc(m, cell) ==
    IF overflow_bit(m.reg) THEN Ret(m, 2)
    ELSE Ret(WithReg(m, set_pc(m.reg, U16(cell.address))),
             2 + cell.cycles + penalty(cell))

bvs(m, cell) ==
    IF ~overflow_bit(m.reg) THEN Ret(m, 2)
    ELSE Ret(WithReg(m, set_pc(m.reg, U16(cell.address))),
             2 + cell.cycles + penalty(cell))

bit(m, cell) ==
    LET r1 == set_negative_bit(m.reg, BitAnd(cell.value, 128) = 128)
        r2 == set_overflow_bit(r1, BitAnd(cell.value, 64) = 64)
        r3 == set_zero_bit(r2, BitAnd(cell.value, r2.a) = 0)
    IN  Ret(WithReg(m, r3), 2 + cell.cycles)

\* brk setting I before P is pushed
brk_i_before_push(m) ==
    LET m1 == WithReg(m, increment_pc(m.reg))
        m2 == stack_push(m1, m1.reg.pc \div 256)
        m3 == stack_push(m2, U8(m2.reg.pc))
        m4 == WithReg(m3, set_interrupt_bit(set_break_bit(m3.reg, TRUE), TRUE))
        m5 == Load(Load(stack_push(m4, m4.reg.p), 65534), 65535)
        pc_low == Rd(m5.mem, 65534)
        pc_high == Rd(m5.mem, 65535)
    IN  Ret(WithReg(m5, set_pc(m5.reg, pc_high * 256 + pc_low)), 7)

\* brk pushing the low byte of the return address before the high byte
brk_low_byte_first(m) ==
    LET m1 == WithReg(m, increment_pc(m.reg))
        m2 == stack_push(m1, U8(m1.reg.pc))
        m3 == stack_push(m2, m2.reg.pc \div 256)
        m4 == WithReg(m3, set_break_bit(m3.reg, TRUE))
        m5 == Load(Load(stack_push(m4, m4.reg.p), 65534), 65535)
        pc_low == Rd(m5.mem, 65534)
        pc_high == Rd(m5.mem, 65535)
        r6 == set_pc(m5.reg, pc_high * 256 + pc_low)
    IN  Ret(WithReg(m5, set_interrupt_bit(r6, TRUE)), 7)

brk(m) ==
    LET m1 == WithReg(m, increment_pc(m.reg))
        m2 == stack_push(m1, m1.reg.pc \div 256)
        m3 == stack_push(m2, U8(m2.reg.pc))
        m4 == WithReg(m3, set_break_bit(m3.reg, TRUE))
        m5 == Load(Load(stack_push(m4, m4.reg.p), 65534), 65535)
        pc_low == Rd(m5.mem, 65534)
        pc_high == Rd(m5.mem, 65535)
        r6 == set_pc(m5.reg, pc_high * 256 + pc_low)
    IN  Ret(WithReg(m5, set_interrupt_bit(r6, TRUE)), 7)

clc(m) == Ret(WithReg(m, set_carry_bit(m.reg, FALSE)), 2)

cld(m) == Ret(WithReg(m, set_decimal_bit(m.reg, FALSE)), 2)

cli(m) == Ret(WithReg(m, set_interrupt_bit(m.reg, FALSE)), 2)

clv(m) == Ret(WithReg(m, set_overflow_bit(m.reg, FALSE)), 2)

sec(m) == Ret(WithReg(m, set_carry_bit(m.reg, TRUE)), 2)

sed(m) == Ret(WithReg(m, set_decimal_bit(m.reg, TRUE)), 2)

sei(m) == Ret(WithReg(m, set_interrupt_bit(m.reg, TRUE)), 2)

\* cmp subtracting with the carry and the math mode of P, as sbc does
cmp_like_sbc(m, cell) ==
    LET result == alu_subtract(m.reg.a, cell.value, carry_bit(m.reg),
                               decimal_bit(m.reg), FALSE)
    IN  Ret(WithReg(m, set_nzc_from_alu_result_bits(m.reg, result)),
            2 + cell.cycles + penalty(cell))

cmp(m, cell) ==
    LET result == alu_subtract(m.reg.a, cell.value, TRUE, FALSE, FALSE)
    IN  Ret(WithReg(m, set_nzc_from_alu_result_bits(m.reg, result)),
            2 + cell.cycles + penalty(cell))

cpx(m, cell) ==
    LET result == alu_subtract(m.reg.x, cell.value, TRUE, FALSE, FALSE)
    IN  Ret(WithReg(m, set_nzc_from_alu_result_bits(m.reg, result)),
            2 + cell.cycles + penalty(cell))

cpy(m, cell) ==
    LET result == alu_subtract(m.reg.y, cell.value, TRUE, FALSE, FALSE)
    IN  Ret(WithReg(m, set_nzc_from_alu_result_bits(m.reg, result)),
            2 + cell.cycles + penalty(cell))

dec(m, cell) ==
    LET result == alu_decrement(cell.value)
    IN  Ret(WithReg(Store(m, cell.address, result.value),
                    set_nz_from_alu_result_bits(m.reg, result)),
            4 + cell.cycles)

inc(m, cell) ==
    LET result == alu_increment(cell.value)
    IN  Ret(WithReg(Store(m, cell.address, result.value),
                    set_nz_from_alu_result_bits(m.reg, result)),
            4 + cell.cycles)

dex(m) ==
    LET result == alu_decrement(m.reg.x)
        r1 == [m.reg EXCEPT !.x = result.value]
    IN  Ret(WithReg(m, set_nz_from_alu_result_bits(r1, result)), 2)

dey(m) ==
    LET result == alu_decrement(m.reg.y)
        r1 == [m.reg EXCEPT !.y = result.value]
    IN  Ret(WithReg(m, set_nz_from_alu_result_bits(r1, result)), 2)

inx(m) ==
    LET result == alu_increment(m.reg.x)
        r1 == [m.reg EXCEPT !.x = result.value]
    IN  Ret(WithReg(m, set_nz_from_alu_result_bits(r1, result)), 2)

iny(m) ==
    LET result == alu_increment(m.reg.y)
        r1 == [m.reg EXCEPT !.y = result.value]
    IN  Ret(WithReg(m, set_nz_from_alu_result_bits(r1, result)), 2)

jmp(m, cell) == Ret(WithReg(m, set_pc(m.reg, U16(cell.address))), 1 + cell.cycles)

\* register.pc() - 1 is a u16 subtraction
jsr(m, cell, checked) ==
    LET m1 == WithReg(m, set_pc(m.reg, U16(m.reg.pc - 1)))
        m2 == stack_push(m1, BitAnd(m1.reg.pc, 65280) \div 256)
        m3 == stack_push(m2, U8(m2.reg.pc))
    IN  IF checked /\ m.reg.pc - 1 < 0 THEN Panic(m)
        ELSE Ret(WithReg(m3, set_pc(m3.reg, U16(cell.address))), 6)

lda(m, cell) ==
    LET r1 == [m.reg EXCEPT !.a = cell.value]
    IN  Ret(WithReg(m, set_nz_from_raw_result_bits(r1, cell.value)),
            2 + cell.cycles + penalty(cell))

ldx(m, cell) ==
    LET r1 == [m.reg EXCEPT !.x = cell.value]
    IN  Ret(WithReg(m, set_nz_from_raw_result_bits(r1, cell.value)),
            2 + cell.cycles + penalty(cell))

ldy(m, cell) ==
    LET r1 == [m.reg EXCEPT !.y = cell.value]
    IN  Ret(WithReg(m, set_nz_from_raw_result_bits(r1, cell.value)),
            2 + cell.cycles + penalty(cell))

nop(m) == Ret(m, 2)

\* pha writing at S without moving S
pha_without_decrement(m) ==
    Ret([m EXCEPT !.mem = Wr(m.mem, m.reg.s + 256, m.reg.a)], 3)

pha(m) == Ret(stack_push(m, m.reg.a), 3)

\* php setting B in P itself before the push, as brk does
php_sets_break(m) ==
    LET m1 == WithReg(m, set_break_bit(m.reg, TRUE))
    IN  Ret(stack_push(m1, BitOr(m1.reg.p, 48)), 3)

php(m) == Ret(stack_push(m, BitOr(m.reg.p, 48)), 3)

\* pla leaving N and Z alone
pla_no_flags(m) ==
    LET m1 == stack_pull(m)
    IN  Ret(WithReg(m1, [m1.reg EXCEPT !.a = pulled(m1)]), 4)

\* pla clearing the stack byte it has pulled
pla_clearing_slot(m) ==
    LET m1 == stack_pull(m)
        r1 == [m1.reg EXCEPT !.a = pulled(m1)]
        m2 == [m1 EXCEPT !.mem = Wr(m1.mem, m1.reg.s + 256, 0)]
    IN  Ret(WithReg(m2, set_nz_from_raw_result_bits(r1, r1.a)), 4)

pla(m) ==
    LET m1 == stack_pull(m)
        r1 == [m1.reg EXCEPT !.a = pulled(m1)]
    IN  Ret(WithReg(m1, set_nz_from_raw_result_bits(r1, r1.a)), 4)

\* plp reading the stack at S before S is incremented
plp_read_before_increment(m) ==
    LET status_register == Rd(m.mem, m.reg.s + 256)
        m1 == stack_pull(m)
    IN  Ret(WithReg(m1, set_p(m1.reg, status_register)), 4)

plp(m) ==
    LET m1 == stack_pull(m)
        status_register == pulled(m1)
    IN  Ret(WithReg(m1, set_p(m1.reg, status_register)), 4)

\* rti leaving B as it was pulled
rti_keeps_break(m) ==
    LET m1 == stack_pull(m)
        status_register == pulled(m1)
        m2 == stack_pull(m1)
        pc_low == pulled(m2)
        m3 == stack_pull(m2)
        pc_high == pulled(m3)
        r1 == set_p(m3.reg, status_register)
    IN  Ret(WithReg(m3, set_pc(r1, pc_high * 256 + pc_low)), 6)

rti(m) ==
    LET m1 == stack_pull(m)
        status_register == pulled(m1)
        m2 == stack_pull(m1)
        pc_low == pulled(m2)
        m3 == stack_pull(m2)
        pc_high == pulled(m3)
        r1 == set_break_bit(set_p(m3.reg, status_register), FALSE)
    IN  Ret(WithReg(m3, set_pc(r1, pc_high * 256 + pc_low)), 6)

rts(m) ==
    LET m1 == stack_pull(m)
        pc_low == pulled(m1)
        m2 == stack_pull(m1)
        pc_high == pulled(m2)
    IN  Ret(WithReg(m2, set_pc(m2.reg, U16(pc_high * 256 + pc_low + 1))), 6)

\* sta paying the cycle for a page crossing as the loads do
sta_with_penalty(m, cell) ==
    Ret(Store(m, cell.address, m.reg.a), 2 + cell.cycles + penalty(cell))

sta(m, cell) ==
    Ret(Store(m, cell.address, m.reg.a), 2 + cell.cycles)

stx(m, cell) ==
    Ret(Store(m, cell.address, m.reg.x), 2 + cell.cycles)

\* sty setting N and Z from the stored byte, as the loads do
sty_sets_flags(m, cell) ==
    Ret(WithReg(Store(m, cell.address, m.reg.y),
                set_nz_from_raw_result_bits(m.reg, m.reg.y)), 2 + cell.cycles)

sty(m, cell) ==
    Ret(Store(m, cell.address, m.reg.y), 2 + cell.cycles)

tax(m) ==
    LET r1 == [m.reg EXCEPT !.x = m.reg.a]
    IN  Ret(WithReg(m, set_nz_from_raw_result_bits(r1, m.reg.a)), 2)

tay(m) ==
    LET r1 == [m.reg EXCEPT !.y = m.reg.a]
    IN  Ret(WithReg(m, set_nz_from_raw_result_bits(r1, m.reg.a)), 2)

tsx(m) ==
    LET r1 == [m.reg EXCEPT !.x = m.reg.s]
    IN  Ret(WithReg(m, set_nz_from_raw_result_bits(r1, m.reg.s)), 2)

txa(m) ==
    LET r1 == [m.reg EXCEPT !.a = m.reg.x]
    IN  Ret(WithReg(m, set_nz_from_raw_result_bits(r1, m.reg.x)), 2)

tya(m) ==
    LET r1 == [m.reg EXCEPT !.a = m.reg.y]
    IN  Ret(WithReg(m, set_nz_from_raw_result_bits(r1, m.reg.y)), 2)

txs(m) == Ret(WithReg(m, set_s(m.reg, m.reg.x)), 2)

-----------------------------------------------------------------------------
(* Decode table and dispatcher (cpu/mod.rs, cpu/mnemonics.rs) *)

E(mn, mode) == [mn |-> mn, mode |-> mode]

\* Mnemonics::NUL carries no addressing mode
N == [mn |-> "NUL", mode |-> "None"]

\* the table as written in the source, row by row; entry i + 1 is opcode i
OPCODES_rows == <<
    E("BRK", "Implied"), E("ORA", "IndirectX"), N, N, N, E("ORA", "ZeroPage"), E("ASL", "ZeroPage"), N, E("PHP", "Implied"), E("ORA", "Immediate"), E("ASL", "Accumulator"), N, N, E("ORA", "Absolute"), E("ASL", "Absolute"), N,
    E("BPL", "Relative"), E("ORA", "IndirectY"), N, N, N, E("ORA", "ZeroPageX"), E("ASL", "ZeroPageX"), N, E("CLC", "Implied"), E("ORA", "AbsoluteY"), N, N, N, E("ORA", "AbsoluteX"), E("ASL", "AbsoluteX"), N,
    E("JSR", "Absolute"), E("AND", "IndirectX"), N, N, E("BIT", "ZeroPage"), E("AND", "ZeroPage"), E("ROL", "ZeroPage"), N, E("PLP", "Implied"), E("AND", "Immediate"), E("ROL", "Accumulator"), N, E("BIT", "Absolute"), E("AND", "Absolute"), E("ROL", "Absolute"), N,
    E("BMI", "Relative"), E("AND", "IndirectY"), N, N, N, E("AND", "ZeroPageX"), E("ROL", "ZeroPageX"), N, E("SEC", "Implied"), E("AND", "AbsoluteY"), N, N, N, E("AND", "AbsoluteX"), E("ROL", "AbsoluteX"), N,
    E("RTI", "Implied"), E("EOR", "IndirectX"), N, N, N, E("EOR", "ZeroPage"), E("LSR", "ZeroPage"), N, E("PHA", "Implied"), E("EOR", "Immediate"), E("LSR", "Accumulator"), N, E("JMP", "Absolute"), E("EOR", "Absolute"), E("LSR", "Absolute"), N,
    E("BVC", "Relative"), E("EOR", "IndirectY"), N, N, N, E("EOR", "ZeroPageX"), E("LSR", "ZeroPageX"), N, E("CLI", "Implied"), E("EOR", "AbsoluteY"), N, N, N, E("EOR", "AbsoluteX"), E("LSR", "AbsoluteX"), N,
    E("RTS", "Implied"), E("ADC", "IndirectX"), N, N, N, E("ADC", "ZeroPage"), E("ROR", "ZeroPage"), N, E("PLA", "Implied"), E("ADC", "Immediate"), E("ROR", "Accumulator"), N, E("JMP", "Indirect"), E("ADC", "Absolute"), E("ROR", "Absolute"), N,
    E("BVS", "Relative"), E("ADC", "IndirectY"), N, N, N, E("ADC", "ZeroPageX"), E("ROR", "ZeroPageX"), N, E("SEI", "Implied"), E("ADC", "AbsoluteY"), N, N, N, E("ADC", "AbsoluteX"), E("ROR", "AbsoluteX"), N,
    N, E("STA", "IndirectX"), N, N, E("STY", "ZeroPage"), E("STA", "ZeroPage"), E("STX", "ZeroPage"), N, E("DEY", "Implied"), N, E("TXA", "Implied"), N, E("STY", "Absolute"), E("STA", "Absolute"), E("STX", "Absolute"), N,
    E("BCC", "Relative"), E("STA", "IndirectY"), N, N, E("STY", "ZeroPageX"), E("STA", "ZeroPageX"), E("STX", "ZeroPageY"), N, E("TYA", "Implied"), E("STA", "AbsoluteY"), E("TXS", "Implied"), N, N, E("STA", "AbsoluteX"), N, N,
    E("LDY", "Immediate"), E("LDA", "IndirectX"), E("LDX", "Immediate"), N, E("LDY", "ZeroPage"), E("LDA", "ZeroPage"), E("LDX", "ZeroPage"), N, E("TAY", "Implied"), E("LDA", "Immediate"), E("TAX", "Implied"), N, E("LDY", "Absolute"), E("LDA", "Absolute"), E("LDX", "Absolute"), N,
    E("BCS", "Relative"), E("LDA", "IndirectY"), N, N, E("LDY", "ZeroPageX"), E("LDA", "ZeroPageX"), E("LDX", "ZeroPageY"), N, E("CLV", "Implied"), E("LDA", "AbsoluteY"), E("TSX", "Implied"), N, E("LDY", "AbsoluteX"), E("LDA", "AbsoluteX"), E("LDX", "AbsoluteY"), N,
    E("CPY", "Immediate"), E("CMP", "IndirectX"), N, N, E("CPY", "ZeroPage"), E("CMP", "ZeroPage"), E("DEC", "ZeroPage"), N, E("INY", "Implied"), E("CMP", "Immediate"), E("DEX", "Implied"), N, E("CPY", "Absolute"), E("CMP", "Absolute"), E("DEC", "Absolute"), N,
    E("BNE", "Relative"), E("CMP", "IndirectY"), N, N, N, E("CMP", "ZeroPageX"), E("DEC", "ZeroPageX"), N, E("CLD", "Implied"), E("CMP", "AbsoluteY"), N, N, N, E("CMP", "AbsoluteX"), E("DEC", "AbsoluteX"), N,
    E("CPX", "Immediate"), E("SBC", "IndirectX"), N, N, E("CPX", "ZeroPage"), E("SBC", "ZeroPage"), E("INC", "ZeroPage"), N, E("INX", "Implied"), E("SBC", "Immediate"), E("NOP", "Implied"), N, E("CPX", "Absolute"), E("SBC", "Absolute"), E("INC", "Absolute"), N,
    E("BEQ", "Relative"), E("SBC", "IndirectY"), N, N, N, E("SBC", "ZeroPageX"), E("INC", "ZeroPageX"), N, E("SED", "Implied"), E("SBC", "AbsoluteY"), N, N, N, E("SBC", "AbsoluteX"), E("INC", "AbsoluteX"), N
>>

\* the table with opcode 0x02 decoded as a NOP
OPCODES_with_extra_entry ==
    [i \in 0..255 |-> IF i = 2 THEN E("NOP", "Implied") ELSE OPCODES_rows[i + 1]]

OPCODES == [i \in 0..255 |-> OPCODES_rows[i + 1]]

\* Mnemonics::handle: the arms that bind `addressing` resolve the operand
\* first; panic!("NULL") for the NUL entry
handle(entry, m, checked) ==
    LET mn == entry.mn
        \* rd is what Addressing::read returned
        dispatch(rd) ==
            LET mr == [m EXCEPT !.reg = rd.reg, !.idx = m.idx \o rd.idx]
            IN  CASE mn = "ADC" -> IF rd.panic THEN Panic(mr) ELSE adc(mr, rd.cell, checked)
                  [] mn = "AND" -> IF rd.panic THEN Panic(mr) ELSE and(mr, rd.cell)
                  [] mn = "ASL" -> IF rd.panic THEN Panic(mr) ELSE asl(mr, rd.cell)
                  [] mn = "BCC" -> IF rd.panic THEN Panic(mr) ELSE bcc(mr, rd.cell)
                  [] mn = "BCS" -> IF rd.panic THEN Panic(mr) ELSE bcs(mr, rd.cell)
                  [] mn = "BEQ" -> IF rd.panic THEN Panic(mr) ELSE beq(mr, rd.cell)
                  [] mn = "BIT" -> IF rd.panic THEN Panic(mr) ELSE bit(mr, rd.cell)
                  [] mn = "BMI" -> IF rd.panic THEN Panic(mr) ELSE bmi(mr, rd.cell)
                  [] mn = "BNE" -> IF rd.panic THEN Panic(mr) ELSE bne(mr, rd.cell)
                  [] mn = "BPL" -> IF rd.panic THEN Panic(mr) ELSE bpl(mr, rd.cell)
                  [] mn = "BRK" -> brk(m)
                  [] mn = "BVC" -> IF rd.panic THEN Panic(mr) ELSE bvc(mr, rd.cell)
                  [] mn = "BVS" -> IF rd.panic THEN Panic(mr) ELSE bvs(mr, rd.cell)
                  [] mn = "CLC" -> clc(m)
                  [] mn = "CLD" -> cld(m)
                  [] mn = "CLI" -> cli(m)
                  [] mn = "CLV" -> clv(m)
                  [] mn = "CMP" -> IF rd.panic THEN Panic(mr) ELSE cmp(mr, rd.cell)
                  [] mn = "CPX" -> IF rd.panic THEN Panic(mr) ELSE cpx(mr, rd.cell)
                  [] mn = "CPY" -> IF rd.panic THEN Panic(mr) ELSE cpy(mr, rd.cell)
                  [] mn = "DEC" -> IF rd.panic THEN Panic(mr) ELSE dec(mr, rd.cell)
                  [] mn = "DEX" -> dex(m)
                  [] mn = "DEY" -> dey(m)
                  [] mn = "EOR" -> IF rd.panic THEN Panic(mr) ELSE eor(mr, rd.cell)
                  [] mn = "INC" -> IF rd.panic THEN Panic(mr) ELSE inc(mr, rd.cell)
                  [] mn = "INX" -> inx(m)
                  [] mn = "INY" -> iny(m)
                  [] mn = "JMP" -> IF rd.panic THEN Panic(mr) ELSE jmp(mr, rd.cell)
                  [] mn = "JSR" -> IF rd.panic THEN Panic(mr) ELSE jsr(mr, rd.cell, checked)
                  [] mn = "LDA" -> IF rd.panic THEN Panic(mr) ELSE lda(mr, rd.cell)
                  [] mn = "LDX" -> IF rd.panic THEN Panic(mr) ELSE ldx(mr, rd.cell)
                  [] mn = "LDY" -> IF rd.panic THEN Panic(mr) ELSE ldy(mr, rd.cell)
                  [] mn = "LSR" -> IF rd.panic THEN Panic(mr) ELSE lsr(mr, rd.cell)
                  [] mn = "NOP" -> nop(m)
                  [] mn = "ORA" -> IF rd.panic THEN Panic(mr) ELSE ora(mr, rd.cell)
                  [] mn = "PHA" -> pha(m)
                  [] mn = "PHP" -> php(m)
                  [] mn = "PLA" -> pla(m)
                  [] mn = "PLP" -> plp(m)
                  [] mn = "ROL" -> IF rd.panic THEN Panic(mr) ELSE rol(mr, rd.cell)
                  [] mn = "ROR" -> IF rd.panic THEN Panic(mr) ELSE ror(mr, rd.cell)
                  [] mn = "RTI" -> rti(m)
                  [] mn = "RTS" -> rts(m)
                  [] mn = "SBC" -> IF rd.panic THEN Panic(mr) ELSE sbc(mr, rd.cell, checked)
                  [] mn = "SEC" -> sec(m)
                  [] mn = "SED" -> sed(m)
                  [] mn = "SEI" -> sei(m)
                  [] mn = "STA" -> IF rd.panic THEN Panic(mr) ELSE sta(mr, rd.cell)
                  [] mn = "STX" -> IF rd.panic THEN Panic(mr) ELSE stx(mr, rd.cell)
                  [] mn = "STY" -> IF rd.panic THEN Panic(mr) ELSE sty(mr, rd.cell)
                  [] mn = "TAX" -> tax(m)
                  [] mn = "TAY" -> tay(m)
                  [] mn = "TSX" -> tsx(m)
                  [] mn = "TXA" -> txa(m)
                  [] mn = "TXS" -> txs(m)
                  [] mn = "TYA" -> tya(m)
                  [] mn = "NUL" -> Panic(m)
    IN  dispatch(addressing_read(entry.mode, m.mem, m.reg, checked))

-----------------------------------------------------------------------------
(* Memory images (main.rs loads the 65536 bytes of a file into memory).    *)
(* An image is given by its nonzero segments.  A program starts at the PC  *)
(* of Register::new; a prologue brings S, P and A to chosen values by      *)
(* executing instructions, and the instructions under test follow.  A      *)
(* program ends as main.rs's loop ends: on an opcode with no decode entry. *)

Lo(w) == w % 256

Hi(w) == (w \div 256) % 256

\* bytes laid out from origin, wrapping at the top of the address space
Seg(origin, bytes) ==
    [a \in {U16(origin + i - 1) : i \in 1..Len(bytes)} |-> bytes[U16(a - origin) + 1]]

\* an opcode with no decode entry
Halt == 2

\* LDX #sv; TXS; LDA #pv; PHA; LDA #av; PLP
\* leaves X = S = sv, A = av, P = pv | 0x20
Prologue(sv, pv, av) == <<162, sv, 154, 169, pv, 72, 169, av, 40>>

ProgramStart == 1536

BodyStart == ProgramStart + 9

SVals == {0, 1, 2, 255}

PVals == {0, 16, 4, 195, 207, 255}

AVals == {0, 1, 128, 255}

\* where the reset vector and the IRQ/BRK vector of the images point
ResetTarget == 2032

IrqTarget == 1808

\* reset vector and IRQ/BRK vector
Vectors(reset, irq) == Seg(65532, <<Lo(reset), Hi(reset), Lo(irq), Hi(irq)>>)

\* the program found by a reset ends at once: at 0x0400, where cold_reset
\* goes, and at the target of the reset vector
AfterReset == Seg(1024, <<Halt>>) @@ Seg(ResetTarget, <<Halt>>)

\* the body at the place the prologue falls into, or reached from it by a JMP
Placed(at, body) ==
    IF at = BodyStart THEN Seg(BodyStart, body)
    ELSE Seg(BodyStart, <<76, Lo(at), Hi(at)>>) @@ Seg(at, body)

\* PHA; PLA for every S and A; CLC or SEC, then PHP; PLP, for every S and P
StackImages ==
    { Seg(ProgramStart, Prologue(sv, pv, av)) @@ Seg(BodyStart, <<72, 104, Halt>>)
        @@ Vectors(ResetTarget, IrqTarget) @@ AfterReset :
        sv \in SVals, pv \in {0, 195, 255}, av \in AVals }
    \cup
    { Seg(ProgramStart, Prologue(sv, pv, 0)) @@ Seg(BodyStart, <<c, 8, 40, Halt>>)
        @@ Vectors(ResetTarget, IrqTarget) @@ AfterReset :
        sv \in SVals, pv \in PVals, c \in {24, 56} }

\* JSR t at address a, RTS at t, the end of the program at a + 3.  A JSR at
\* 0xFFFD lies over the high byte of the reset vector and over the IRQ/BRK
\* vector.
JsrAt == {BodyStart, 32766, 65533}

JsrTargets == {1792, 256, 511}

JsrImages ==
    { Seg(ProgramStart, Prologue(sv, 0, 0)) @@ Placed(at, <<32, Lo(t), Hi(t)>>)
        @@ Seg(U16(at + 3), <<Halt>>) @@ Seg(t, <<96>>)
        @@ Vectors(ResetTarget, IrqTarget) @@ AfterReset :
        sv \in SVals, at \in JsrAt, t \in JsrTargets }

\* BRK at address at, RTI at the target t of the IRQ/BRK vector, the end of
\* the program at at + 2.  A BRK at 0xFFFE or 0xFFFF is itself a byte of the
\* vector, so the other byte of the vector decides t.
BrkCases ==
    { [at |-> BodyStart, t |-> IrqTarget], [at |-> BodyStart, t |-> 510],
      [at |-> 65534, t |-> 1792], [at |-> 65535, t |-> 16] }

BrkImages ==
    { Seg(ProgramStart, Prologue(sv, pv, 0)) @@ Placed(c.at, <<0>>)
        @@ Seg(U16(c.at + 2), <<Halt>>) @@ Seg(c.t, <<64>>)
        @@ Seg(65532, <<Lo(ResetTarget), Hi(ResetTarget), Lo(c.t), Hi(c.t)>>)
        @@ AfterReset :
        sv \in SVals, pv \in PVals, c \in BrkCases }

\* One instruction of every opcode, legal or not, run from the registers of
\* Register::new and again after LDA #$FF; PHA; PLP (A = 0xFF, P = 0xFF).
\* Its operand bytes are Halt, and so are the bytes an operand of that
\* value can name: the program ends after the instruction whatever its
\* length, and also where a branch, a jump or a return takes it.
OperandBytes == <<Halt, Halt, Halt, Halt>>

OpcodeImages ==
    { Seg(ProgramStart, pre \o <<op>> \o OperandBytes)
        @@ Seg(0, <<Halt, Halt, Halt, Halt>>) @@ Seg(514, <<Halt, Halt>>)
        @@ Seg(IrqTarget, <<Halt>>)
        @@ Vectors(ResetTarget, IrqTarget) @@ AfterReset :
        pre \in {<<>>, <<169, 255, 72, 40>>}, op \in 0..255 }

Images == StackImages \cup JsrImages \cup BrkImages \cup OpcodeImages

-----------------------------------------------------------------------------
(* The Cpu (cpu/mod.rs) *)

\* The reset vector is read, and then pc_high and pc_low are rebound to the
\* constants 0x04 and 0x00 before they are used.
cold_reset(r, mem) ==
    LET vector_high == Rd(mem, 65533)
        vector_low == Rd(mem, 65532)
        pc_high == 4
        pc_low == 0
        r1 == [r EXCEPT !.a = 0, !.x = 0, !.y = 0]
    IN  set_pc(set_p(r1, 36), pc_high * 256 + pc_low)

\* warm_reset writing the whole of P as cold_reset does
warm_reset_whole_p(r, mem) ==
    LET pc_high == Rd(mem, 65533)
        pc_low == Rd(mem, 65532)
    IN  set_pc(set_p(r, 36), pc_high * 256 + pc_low)

warm_reset(r, mem) ==
    LET pc_high == Rd(mem, 65533)
        pc_low == Rd(mem, 65532)
    IN  set_pc(set_interrupt_bit(r, TRUE), pc_high * 256 + pc_low)

\* the record of one operation: what was called, the opcode fetched and the
\* two bytes that followed it in memory, the register file before it, the
\* cycles the handler returned, the stack accesses it made, the indices at
\* which it read or wrote the memory slice and whether it panicked
Rec(op, opcode, arg, pre, cyc, acc, idx, panic) ==
    [op |-> op, opcode |-> opcode, arg |-> arg, pre |-> pre, cyc |-> cyc,
     acc |-> acc, idx |-> idx, panic |-> panic]

Remember(h, rec) ==
    IF Len(h) < HistLen THEN Append(h, rec) ELSE Append(Tail(h), rec)

Init ==
    /\ memory \in Images
    /\ register = Register_new
    /\ opcodes = OPCODES
    /\ cycles = 0
    /\ build \in {"debug", "release"}
    /\ status = "running"
    /\ ret = "none"
    /\ hist = <<>>
    /\ resets = 0

ColdReset ==
    /\ status = "running"
    /\ resets < MaxResets
    /\ resets' = resets + 1
    /\ register' = cold_reset(register, memory)
    /\ hist' = Remember(hist, Rec("cold_reset", -1, <<>>, register, 0, <<>>, <<65533, 65532>>, FALSE))
    /\ UNCHANGED <<memory, opcodes, cycles, build, status, ret>>

WarmReset ==
    /\ status = "running"
    /\ resets < MaxResets
    /\ resets' = resets + 1
    /\ register' = warm_reset(register, memory)
    /\ hist' = Remember(hist, Rec("warm_reset", -1, <<>>, register, 0, <<>>, <<65533, 65532>>, FALSE))
    /\ UNCHANGED <<memory, opcodes, cycles, build, status, ret>>

\* read_byte, then Mnemonics::handle on the table entry; a panic ends the
\* process, otherwise the cycles are added and true is returned
Step ==
    /\ status = "running"
    /\ cycles < MaxCycles
    /\ LET opcode == Rd(memory, register.pc)
           r1 == increment_pc(register)
           arg == <<Rd(memory, r1.pc), Rd(memory, increment_pc(r1).pc)>>
       IN  \E h \in {handle(opcodes[opcode],
                             [reg |-> r1, mem |-> memory, acc |-> <<>>,
                              idx |-> <<register.pc>>],
                             build = "debug")} :
           /\ register' = h.reg
           /\ memory' = h.mem
           /\ cycles' = IF h.panic THEN cycles ELSE cycles + h.cyc
           /\ status' = IF h.panic THEN "panicked" ELSE "running"
           /\ ret' = IF h.panic THEN ret ELSE "true"
           /\ hist' = Remember(hist, Rec("step", opcode, arg, register, h.cyc, h.acc, h.idx, h.panic))
    /\ UNCHANGED <<opcodes, build, resets>>

Next == Step \/ ColdReset \/ WarmReset

Spec == Init /\ [][Next]_vars

-----------------------------------------------------------------------------
(* One step from a chosen state.  The register file is any the program can *)
(* have brought about (every field is loadable: LDA, LDX, LDY, TXS, PLP,   *)
(* JMP), the memory holds one instruction at PC over a background of data, *)
(* and Cpu::step is applied once.                                          *)

\* data under the instruction: zero-page pointers at 0x00FF, 0x0077 and
\* 0x00CC, bytes at both candidates for their high halves, the cells the
\* operand words below name, and a return address 0xFFFF on the stack
Background ==
    Seg(0, <<3, 128, 127>>) @@ Seg(53, <<119>>) @@ Seg(119, <<255, 1>>)
    @@ Seg(127, <<1, 153>>) @@ Seg(309, <<120>>)
    @@ Seg(204, <<128, 90>>) @@ Seg(252, <<255, 255>>) @@ Seg(255, <<5, 1, 255, 255>>) @@ Seg(261, <<66>>)
    @@ Seg(517, <<36>>) @@ Seg(773, <<24>>)
    @@ Seg(12288, <<80>>) @@ Seg(12543, <<64, 96>>)
    @@ Seg(23292, <<17>>) @@ Seg(23296, <<255>>) @@ Seg(23308, <<128>>)
    @@ Seg(65280, <<52>>) @@ Seg(65535, <<18>>)

\* operand words: the low byte is the operand of the one-byte modes
Words == {12543, 12288, 23292, 255, 65535, 375, 23244, 2, 128, 4223}

\* (X, Y)
IndexPairs == {<<0, 0>>, <<16, 54>>, <<54, 6>>, <<51, 16>>, <<255, 255>>, <<6, 51>>, <<91, 91>>}

\* the opcodes whose addressing mode names a memory cell
MemoryOpcodes ==
    {op \in 0..255 :
        OPCODES[op].mode \in {"ZeroPage", "ZeroPageX", "ZeroPageY", "Absolute",
                              "AbsoluteX", "AbsoluteY", "Indirect", "IndirectX",
                              "IndirectY"}}

BranchOpcodes == {op \in 0..255 : OPCODES[op].mode = "Relative"}

Case(pc, op, word, a, x, y, s, p) ==
    [pc |-> pc, op |-> op, word |-> word, a |-> a, x |-> x, y |-> y, s |-> s, p |-> p]

\* every memory mode with every operand word and index
AddressingCases ==
    { Case(ProgramStart, op, w, 128, xy[1], xy[2], 255, 32) :
        op \in MemoryOpcodes, w \in Words, xy \in IndexPairs }

\* every branch, taken and not taken, with displacements of both signs, at
\* addresses next to 0x0000, 0x7FFF/0x8000 and 0xFFFF and inside a page
BranchCases ==
    { Case(pc, op, d, 0, 0, 0, 255, p) :
        op \in BranchOpcodes,
        pc \in {1536, 1539, 1662, 32637, 32765, 32766, 32894, 65533, 65534, 65535, 0, 254},
        d \in {0, 2, 127, 128, 255, 252, 119, 204},
        p \in {32, 255} }

\* every opcode with register and flag values at and between the extremes
FlagCases ==
    { Case(ProgramStart, op, w, r[1], r[2], r[3], 255, p) :
        op \in 0..255,
        w \in {2, 255, 128, 4223},
        r \in {<<0, 0, 0>>, <<255, 255, 255>>, <<128, 127, 1>>},
        p \in {32, 33, 40, 235} }

\* every opcode fetched at the top of the address space, with S at both ends
EdgeCases ==
    { Case(pc, op, 255, r, r, r, r, p) :
        op \in 0..255, pc \in {65533, 65534, 65535}, r \in {0, 255}, p \in {32, 235} }

\* every opcode without an operand, over stack pointers at both ends of the
\* stack page
StackCases ==
    { Case(ProgramStart, op, 0, 128, 127, 1, s, p) :
        op \in {op \in 0..255 : OPCODES[op].mode = "Implied"},
        s \in {0, 1, 2, 254, 255}, p \in {32, 235} }

\* bytes at the ends of the signed and unsigned ranges, valid packed BCD and
\* bytes with a nibble above 9
AluBytes ==
    {0, 1, 9, 10, 15, 16, 21, 25, 39, 64, 66, 73, 80, 88, 127, 128, 129, 144,
     153, 154, 160, 192, 250, 255}

\* ADC #b and SBC #b with A = a, over carry in and both math modes; CMP #b,
\* CPX #b and CPY #b with the compared register = a and the two others apart
AluCases ==
    { Case(ProgramStart, op, b, a, a, a, 255, p) :
        op \in {105, 233}, a \in AluBytes, b \in AluBytes, p \in {32, 33, 40, 41} }
    \cup
    { Case(ProgramStart, 201, b, a, U8(a + 85), U8(a + 170), 255, p) :
        a \in AluBytes, b \in AluBytes, p \in {32, 41, 246, 255} }
    \cup
    { Case(ProgramStart, op, b, U8(a + 85), IF op = 224 THEN a ELSE U8(a + 170),
           IF op = 192 THEN a ELSE U8(a + 170), 255, p) :
        op \in {224, 192}, a \in {0, 1, 127, 128, 129, 255}, b \in AluBytes,
        p \in {32, 41, 246, 255} }

\* the bytes whose two nibbles are decimal digits
BcdBytes == {16 * hi + lo : hi \in 0..9, lo \in 0..9}

\* decimal ADC #b and SBC #b with A = a over every packed-BCD a
BcdCases ==
    { Case(ProgramStart, op, b, a, 0, 0, 255, p) :
        op \in {105, 233}, a \in BcdBytes, b \in AluBytes \cap BcdBytes,
        p \in {40, 41} }

StepCases ==
    AddressingCases \cup BranchCases \cup FlagCases \cup EdgeCases \cup StackCases
    \cup AluCases \cup BcdCases

InitStep ==
    /\ \E c \in StepCases :
          /\ register = [pc |-> c.pc, s |-> c.s, a |-> c.a, x |-> c.x, y |-> c.y,
                         p |-> c.p]
          /\ memory = Seg(c.pc, <<c.op, Lo(c.word), Hi(c.word)>>) @@ Background
    /\ opcodes = OPCODES
    /\ cycles = 0
    /\ build \in {"debug", "release"}
    /\ status = "running"
    /\ ret = "none"
    /\ hist = <<>>
    /\ resets = 0

\* the one call of Cpu::step
FirstStep == hist = <<>> /\ Step

SpecStep == InitStep /\ [][FirstStep]_vars

-----------------------------------------------------------------------------
(* Properties *)

HasLast == Len(hist) >= 1

HasPrev == Len(hist) >= 2

\* the most recent operation and the one before it
Last == hist[Len(hist)]

Prev == hist[Len(hist) - 1]

\* rec is a step that decoded mnemonic mn and returned
Ran(rec, mn) == rec.op = "step" /\ ~rec.panic /\ opcodes[rec.opcode].mn = mn

\* rec is a step that decoded mnemonic mn, returned or not
Decoded(rec, mn) == rec.op = "step" /\ opcodes[rec.opcode].mn = mn

ResetVector == Rd(memory, 65532) + 256 * Rd(memory, 65533)

\* C1: bit 5 of P is 1 in every reachable state; after PLP, P is the pulled
\* byte with bit 5 forced to 1; after RTI it is the pulled byte with bit 5
\* forced to 1 and then B cleared; after cold_reset it is 0b0010_0100.
C1_Bit5AlwaysSet ==
    /\ Bit(register.p, 5) = 1
    /\ (HasLast /\ Ran(Last, "PLP")) =>
          \A i \in 0..7 :
              Bit(register.p, i) = IF i = 5 THEN 1 ELSE Bit(Last.acc[1].value, i)
    /\ (HasLast /\ Ran(Last, "RTI")) =>
          \A i \in 0..7 :
              Bit(register.p, i) = IF i = 5 THEN 1
                                   ELSE IF i = 4 THEN 0
                                   ELSE Bit(Last.acc[1].value, i)
    /\ (HasLast /\ Last.op = "cold_reset") => register.p = 36

\* a PLP has pulled a byte whose bit 5 is 0
C1_Witness ==
    /\ HasLast
    /\ Ran(Last, "PLP")
    /\ Bit(Last.acc[1].value, 5) = 0
    /\ Bit(register.p, 5) = 1

\* C2: a step that fetches an opcode with no decode entry returns a stop
\* indication (false) to its caller.
C2_IllegalOpcodeReturnsFatal ==
    (HasLast /\ Decoded(Last, "NUL")) => (status = "running" /\ ret = "false")

\* C3: after cold_reset, PC is the little-endian word at 0xFFFC/0xFFFD.
C3_ColdResetLoadsVector ==
    (HasLast /\ Last.op = "cold_reset") => register.pc = ResetVector

\* C4: after cold_reset, A = X = Y = 0, P = 0b0010_0100 and S = 0xFF.
C4_ColdResetRegisters ==
    (HasLast /\ Last.op = "cold_reset") =>
        /\ register.a = 0
        /\ register.x = 0
        /\ register.y = 0
        /\ register.p = 36
        /\ register.s = 255

\* C5: warm_reset sets I and loads PC from the reset vector, and leaves A, X,
\* Y, S, the other bits of P, the memory and the cycle counter unchanged.
C5_WarmResetFrame ==
    [][ (resets' # resets /\ hist'[Len(hist')].op = "warm_reset") =>
            /\ register'.pc = ResetVector
            /\ Bit(register'.p, 2) = 1
            /\ \A i \in (0..7) \ {2} : Bit(register'.p, i) = Bit(register.p, i)
            /\ register'.a = register.a
            /\ register'.x = register.x
            /\ register'.y = register.y
            /\ register'.s = register.s
            /\ memory' = memory
            /\ cycles' = cycles ]_vars

\* warm_reset was called with I clear, after steps that changed A, S and the
\* cycle counter
C5_Witness ==
    /\ HasLast
    /\ Last.op = "warm_reset"
    /\ Bit(Last.pre.p, 2) = 0
    /\ Bit(register.p, 2) = 1
    /\ Last.pre.a # 0
    /\ Last.pre.s # 255
    /\ cycles > 0
    /\ register.pc = ResetTarget

\* the stack accesses of rec follow the rule of push and pull, starting from
\* the S the operation found
StackRule(rec) ==
    \A k \in 1..Len(rec.acc) :
        LET e == rec.acc[k]
        IN  /\ e.s_old = IF k = 1 THEN rec.pre.s ELSE rec.acc[k - 1].s_new
            /\ e.address \in 256..511
            /\ e.kind = "push" =>
                  /\ e.address = BitOr(256, e.s_old)
                  /\ e.s_new = (e.s_old - 1) % 256
            /\ e.kind = "pull" =>
                  /\ e.s_new = (e.s_old + 1) % 256
                  /\ e.address = BitOr(256, e.s_new)

\* C6: a push writes the value at 0x0100 | S_old and leaves S = S_old - 1 mod
\* 256; a pull sets S = S_old + 1 mod 256 and returns the byte at
\* 0x0100 | S_new; every stack access lies in 0x0100..0x01FF.
C6_StackWrapsInPage ==
    /\ \A n \in 1..Len(hist) : StackRule(hist[n])
    /\ (HasLast /\ Last.op = "step" /\ ~Last.panic /\ Len(Last.acc) > 0) =>
          LET e == Last.acc[Len(Last.acc)]
          IN  /\ register.s = e.s_new
              /\ Rd(memory, e.address) = e.value
    /\ (HasLast /\ Ran(Last, "PHA")) =>
          /\ Len(Last.acc) = 1
          /\ Rd(memory, BitOr(256, Last.pre.s)) = Last.pre.a
    /\ (HasLast /\ Ran(Last, "PLA")) =>
          /\ Len(Last.acc) = 1
          /\ register.a = Rd(memory, BitOr(256, register.s))

\* PHA with S = 0x00 has written 0x0100 and left S = 0xFF
C6_Witness ==
    /\ HasLast
    /\ Ran(Last, "PHA")
    /\ Last.pre.s = 0
    /\ Last.pre.a # 0
    /\ register.s = 255
    /\ Rd(memory, 256) = Last.pre.a

\* C7: a JSR at address a pushes the high and then the low byte of a + 2 and
\* costs 6 cycles; the RTS at its target then leaves PC = (a + 3) mod 2^16
\* and S as it was before the JSR, and costs 6 cycles.
C7_JsrRtsRoundTrip ==
    /\ (HasLast /\ Decoded(Last, "JSR")) =>
          LET a == Last.pre.pc
          IN  /\ ~Last.panic
              /\ Last.cyc = 6
              /\ Len(Last.acc) = 2
              /\ Last.acc[1].kind = "push" /\ Last.acc[1].value = Hi(a + 2)
              /\ Last.acc[2].kind = "push" /\ Last.acc[2].value = Lo(a + 2)
    /\ (HasPrev /\ Decoded(Prev, "JSR") /\ Ran(Last, "RTS")) =>
          /\ register.pc = (Prev.pre.pc + 3) % 65536
          /\ register.s = Prev.pre.s
          /\ Last.cyc = 6

C9_PhaPlaRoundTrip ==
    (HasPrev /\ Ran(Prev, "PHA") /\ Ran(Last, "PLA")) =>
        /\ register.a = Prev.pre.a
        /\ register.s = Prev.pre.s
        /\ Bit(register.p, 1) = (IF Prev.pre.a = 0 THEN 1 ELSE 0)
        /\ Bit(register.p, 7) = (IF Prev.pre.a >= 128 THEN 1 ELSE 0)
        /\ \A i \in (0..7) \ {1, 7} : Bit(register.p, i) = Bit(Prev.pre.p, i)

\* PHA; PLA with S = 0x00 and A = 0x01 while Z and N were both set
C9_Witness ==
    /\ HasPrev
    /\ Ran(Prev, "PHA")
    /\ Ran(Last, "PLA")
    /\ Prev.pre.s = 0
    /\ Prev.pre.a = 1
    /\ Prev.pre.p = 227
    /\ register.p = 97

\* C10: PHP followed immediately by PLP leaves S unchanged and every bit of P
\* other than B as before the PHP; bit 5 of P is 1 after the PLP.
C10_PhpPlpRoundTrip ==
    (HasPrev /\ Ran(Prev, "PHP") /\ Ran(Last, "PLP")) =>
        /\ register.s = Prev.pre.s
        /\ \A i \in (0..7) \ {4} : Bit(register.p, i) = Bit(Prev.pre.p, i)
        /\ Bit(register.p, 5) = 1

\* PHP; PLP with S = 0x00 and B clear before the PHP
C10_Witness ==
    /\ HasPrev
    /\ Ran(Prev, "PHP")
    /\ Ran(Last, "PLP")
    /\ Prev.pre.s = 0
    /\ Prev.pre.p = 239
    /\ register.s = 0

-----------------------------------------------------------------------------
(* Properties of one step *)

\* the addressing mode of the opcode that the step of rec fetched
ModeOf(rec) == opcodes[rec.opcode].mode

\* rec is a step whose opcode has the addressing mode mode
Resolved(rec, mode) == rec.op = "step" /\ ModeOf(rec) = mode

\* the 16-bit operand of the step of rec
ArgWord(rec) == rec.arg[1] + 256 * rec.arg[2]

\* C11: in IndirectX and IndirectY, when the low byte of the zero-page
\* pointer is at 0x00FF, its high byte is read from 0x0000.  The reads of
\* such a step are: opcode, operand, pointer low, pointer high, cell.
C11_PointerHighByteFromPageZero ==
    /\ (HasLast /\ Resolved(Last, "IndirectX")
            /\ (Last.arg[1] + Last.pre.x) % 256 = 255) =>
          /\ Last.idx[3] = 255
          /\ Last.idx[4] = 0
    /\ (HasLast /\ Resolved(Last, "IndirectY") /\ Last.arg[1] = 255) =>
          /\ Last.idx[3] = 255
          /\ Last.idx[4] = 0

\* C12: JMP (p) sets PC to mem[p] | (mem[q] << 8), where q has the high byte
\* of p and the low byte (p + 1) mod 256; the low byte of the target is read
\* first.
C12_JmpIndirectPageBug ==
    (HasLast /\ Ran(Last, "JMP") /\ Resolved(Last, "Indirect")) =>
        LET p == ArgWord(Last)
            q == ((p \div 256) * 256) + ((p + 1) % 256)
        IN  /\ register.pc = Rd(memory, p) + 256 * Rd(memory, q)
            /\ Len(Last.idx) = 5
            /\ Last.idx[4] = p
            /\ Last.idx[5] = q

\* JMP ($30FF) has read 0x30FF and 0x3000 and gone to 0x5040; 0x3100 holds
\* 0x60
C12_Witness ==
    /\ HasLast
    /\ Ran(Last, "JMP")
    /\ Resolved(Last, "Indirect")
    /\ ArgWord(Last) = 12543
    /\ Rd(memory, 12544) = 96
    /\ register.pc = 20544

\* the mnemonics that read a cell, change it and write it back
ReadModifyWrite == {"ASL", "LSR", "ROL", "ROR", "INC", "DEC"}

MnemonicOf(rec) == opcodes[rec.opcode].mn

\* C13: the effective address of ZeroPageX / ZeroPageY is (operand + index)
\* mod 256, so it lies in page zero, and the step pays no page-crossing
\* cycle: 2 (4 for a read-modify-write) plus the resolver's 2.
C13_ZeroPageIndexedWraps ==
    /\ (HasLast /\ Resolved(Last, "ZeroPageX") /\ ~Last.panic) =>
          /\ Last.idx[3] = (Last.arg[1] + Last.pre.x) % 256
          /\ Last.idx[3] \in 0..255
          /\ \A k \in 3..Len(Last.idx) : Last.idx[k] = Last.idx[3]
          /\ Last.cyc = IF MnemonicOf(Last) \in ReadModifyWrite THEN 6 ELSE 4
    /\ (HasLast /\ Resolved(Last, "ZeroPageY") /\ ~Last.panic) =>
          /\ Last.idx[3] = (Last.arg[1] + Last.pre.y) % 256
          /\ Last.idx[3] \in 0..255
          /\ \A k \in 3..Len(Last.idx) : Last.idx[k] = Last.idx[3]
          /\ Last.cyc = IF MnemonicOf(Last) \in ReadModifyWrite THEN 6 ELSE 4

\* LDA $FF,X with X = 0x36 has loaded the byte at 0x0035, not the one at
\* 0x0135
C13_Witness ==
    /\ HasLast
    /\ Ran(Last, "LDA")
    /\ Resolved(Last, "ZeroPageX")
    /\ Last.arg[1] = 255
    /\ Last.pre.x = 54
    /\ Last.idx[3] = 53
    /\ Rd(memory, 309) # Rd(memory, 53)
    /\ register.a = Rd(memory, 53)

\* the index addition of rec carries out of the low byte of base
Crosses(base, index) == (base % 256) + index > 255

\* C14: LDA costs 4 cycles in AbsoluteX and AbsoluteY and 5 in IndirectY when
\* the index addition stays in the page of the base, and one cycle more when
\* it crosses a page.
C14_LdaPageCrossCycles ==
    (HasLast /\ Ran(Last, "LDA")) =>
        /\ Resolved(Last, "AbsoluteX") =>
              Last.cyc = IF Crosses(ArgWord(Last), Last.pre.x) THEN 5 ELSE 4
        /\ Resolved(Last, "AbsoluteY") =>
              Last.cyc = IF Crosses(ArgWord(Last), Last.pre.y) THEN 5 ELSE 4
        /\ Resolved(Last, "IndirectY") =>
              Last.cyc = IF Crosses(Rd(memory, Last.arg[1]), Last.pre.y) THEN 6 ELSE 5

\* the addressing modes that name a memory cell
MemoryModes ==
    {"ZeroPage", "ZeroPageX", "ZeroPageY", "Absolute", "AbsoluteX", "AbsoluteY",
     "Indirect", "IndirectX", "IndirectY"}

ReadStyle == {"LDA", "LDX", "LDY", "ADC", "SBC", "AND", "ORA", "EOR", "CMP"}

Stores == {"STA", "STX", "STY"}

\* the modes that add an index register to a 16-bit base
Penalised == {"AbsoluteX", "AbsoluteY", "IndirectY"}

\* the cycles[] field the resolver of each mode puts in its MemoryCell
ResolverCycles(mode) ==
    CASE mode \in {"Implied", "Accumulator", "Immediate"} -> 0
      [] mode \in {"Relative", "ZeroPage"} -> 1
      [] mode \in {"ZeroPageX", "ZeroPageY", "Absolute"} -> 2
      [] mode \in {"AbsoluteX", "AbsoluteY"} -> 3
      [] mode \in {"Indirect", "IndirectX", "IndirectY"} -> 4

\* the part of a handler's cycle count that does not come from the cell
BaseCycles(mn) ==
    CASE mn \in ReadModifyWrite -> 4
      [] mn = "JSR" -> 4
      [] mn = "JMP" -> 1
      [] OTHER -> 2

\* the index addition of rec's operand crossed a page; the memory read is that
\* of the state after the step, which a read-style instruction leaves alone
IndexCrossed(rec) ==
    CASE ModeOf(rec) = "AbsoluteX" -> Crosses(ArgWord(rec), rec.pre.x)
      [] ModeOf(rec) = "AbsoluteY" -> Crosses(ArgWord(rec), rec.pre.y)
      [] ModeOf(rec) = "IndirectY" -> Crosses(Rd(memory, rec.arg[1]), rec.pre.y)
      [] OTHER -> FALSE

\* C15: stores and the memory forms of the read-modify-write instructions
\* cost the same whether or not the index addition crossed a page (STA
\* AbsoluteX and AbsoluteY cost 5); read-style instructions in AbsoluteX,
\* AbsoluteY and IndirectY cost exactly one cycle more with a crossing than
\* without; in every other operand mode the cost has no penalty term.
C15_PenaltyOnlyOnIndexedReads ==
    (HasLast /\ Last.op = "step" /\ ~Last.panic
       /\ ModeOf(Last) \in (MemoryModes \cup {"Immediate"})) =>
        LET mn == MnemonicOf(Last)
            mode == ModeOf(Last)
            fixed == BaseCycles(mn) + ResolverCycles(mode)
        IN  /\ mn \in Stores \cup ReadModifyWrite => Last.cyc = fixed
            /\ (mn = "STA" /\ mode \in {"AbsoluteX", "AbsoluteY"}) => Last.cyc = 5
            /\ (mn \in ReadStyle /\ mode \in Penalised) =>
                  Last.cyc = fixed + (IF IndexCrossed(Last) THEN 1 ELSE 0)
            /\ mode \notin Penalised => Last.cyc = fixed

\* STA $30FF,X with X = 0x10 has written 0x310F in 5 cycles
C15_Witness ==
    /\ HasLast
    /\ Ran(Last, "STA")
    /\ Resolved(Last, "AbsoluteX")
    /\ ArgWord(Last) = 12543
    /\ Last.pre.x = 16
    /\ Last.idx[4] = 12559
    /\ Rd(memory, 12559) = Last.pre.a
    /\ Last.cyc = 5

\* the flag a branch tests and the value at which it is taken
BranchTaken(mn, p) ==
    CASE mn = "BCC" -> BitAnd(p, 1) = 0
      [] mn = "BCS" -> BitAnd(p, 1) = 1
      [] mn = "BNE" -> BitAnd(p, 2) = 0
      [] mn = "BEQ" -> BitAnd(p, 2) = 2
      [] mn = "BVC" -> BitAnd(p, 64) = 0
      [] mn = "BVS" -> BitAnd(p, 64) = 64
      [] mn = "BPL" -> BitAnd(p, 128) = 0
      [] mn = "BMI" -> BitAnd(p, 128) = 128

Signed8(d) == IF d > 127 THEN d - 256 ELSE d

\* what the step of a branch at rec.pre.pc has to leave behind
BranchOutcome(rec) ==
    LET after == (rec.pre.pc + 2) % 65536
        target == (after + Signed8(rec.arg[1]) + 65536) % 65536
    IN  IF BranchTaken(MnemonicOf(rec), rec.pre.p)
        THEN /\ register.pc = target
             /\ rec.cyc = IF target \div 256 = after \div 256 THEN 3 ELSE 4
        ELSE /\ register.pc = after
             /\ rec.cyc = 2

\* C16: a branch not taken costs 2 cycles and leaves PC after the operand; a
\* branch taken sets PC to (PC after the operand + signed displacement) mod
\* 2^16 and costs 3 cycles when the target is in the page of the PC after the
\* operand and 4 otherwise, for every PC and every displacement.
C16_BranchTargetAndCycles ==
    (HasLast /\ Resolved(Last, "Relative")) =>
        /\ ~Last.panic
        /\ BranchOutcome(Last)

\* C17: no step on a legal opcode aborts on an arithmetic overflow; PC, S, A,
\* X and Y wrap in their widths, at a fetch at PC = 0xFFFF, in the Relative
\* branch-target addition for every PC and in JSR's decrement of PC = 0x0000.
C17_NoOverflowAbort ==
    (HasLast /\ Last.op = "step" /\ MnemonicOf(Last) # "NUL") => ~Last.panic

\* the length of the memory slice main.rs hands to the CPU
MemorySize == 65536

\* C18: every index at which a step or a reset reads or writes the memory
\* slice lies in 0..0xFFFF, in every addressing mode and for every register
\* and memory content.
C18_IndicesInRange ==
    HasLast => \A k \in 1..Len(Last.idx) : Last.idx[k] \in 0..(MemorySize - 1)

\* LDA $FFFF,X with X = 0xFF has read its operand at 0x00FE
C18_Witness ==
    /\ HasLast
    /\ Ran(Last, "LDA")
    /\ Resolved(Last, "AbsoluteX")
    /\ ArgWord(Last) = 65535
    /\ Last.pre.x = 255
    /\ Last.idx = <<1536, 1537, 1538, 254>>

\* the byte an instruction commits, read where the step has put it: a
\* register, or the memory cell at the last index the step has used
Committed(rec) ==
    LET mn == MnemonicOf(rec)
    IN  CASE mn \in {"LDA", "PLA", "ADC", "SBC", "AND", "ORA", "EOR", "TXA", "TYA"} ->
                register.a
          [] mn \in {"LDX", "TAX", "TSX", "INX", "DEX"} -> register.x
          [] mn \in {"LDY", "TAY", "INY", "DEY"} -> register.y
          [] mn \in {"INC", "DEC"} -> Rd(memory, rec.idx[Len(rec.idx)])
          [] mn \in {"ASL", "LSR", "ROL", "ROR"} ->
                IF ModeOf(rec) = "Accumulator" THEN register.a
                ELSE Rd(memory, rec.idx[Len(rec.idx)])

CommitsNZ ==
    {"LDA", "LDX", "LDY", "TAX", "TAY", "TSX", "TXA", "TYA", "PLA", "ADC", "SBC",
     "AND", "ORA", "EOR", "INC", "DEC", "INX", "INY", "DEX", "DEY",
     "ASL", "LSR", "ROL", "ROR"}

\* C19: after an instruction that commits N and Z from a result byte, Z is
\* set iff the byte stored in the destination is 0 and N is set iff it
\* exceeds 0x7F; in decimal mode the byte is the BCD-corrected one.
C19_NZFollowCommittedByte ==
    (HasLast /\ Last.op = "step" /\ ~Last.panic /\ MnemonicOf(Last) \in CommitsNZ) =>
        /\ zero_bit(register) <=> (Committed(Last) = 0)
        /\ negative_bit(register) <=> (Committed(Last) > 127)

\* ADC $80 in decimal mode with A = 0x00, memory[0x80] = 0x99 and C = 1 has
\* stored the corrected byte 0x00 and set Z, where the binary sum is 0x9A
C19_Witness ==
    /\ HasLast
    /\ Ran(Last, "ADC")
    /\ Resolved(Last, "ZeroPage")
    /\ Last.arg[1] = 128
    /\ Rd(memory, 128) = 153
    /\ Last.pre.a = 0
    /\ Last.pre.p = 235
    /\ register.a = 0
    /\ zero_bit(register)
    /\ ~negative_bit(register)

\* the k-th stack access of rec is a push of value at 0x0100 + s
Pushed(rec, k, s, value) ==
    /\ rec.acc[k].kind = "push"
    /\ rec.acc[k].address = 256 + s
    /\ rec.acc[k].value = value
    /\ Rd(memory, 256 + s) = value

Pulled(rec, k, s) ==
    /\ rec.acc[k].kind = "pull"
    /\ rec.acc[k].address = 256 + s
    /\ rec.acc[k].value = Rd(memory, 256 + s)

\* C21: RTI pulls P, then PC low, then PC high, S going up by 3 mod 256; P
\* becomes the pulled byte with bit 5 set and B cleared, PC the pulled word
\* with no increment, and the step costs 6 cycles.
C21_RtiPullsAndClearsB ==
    (HasLast /\ Ran(Last, "RTI")) =>
        LET s == Last.pre.s
        IN  /\ Len(Last.acc) = 3
            /\ Pulled(Last, 1, (s + 1) % 256)
            /\ Pulled(Last, 2, (s + 2) % 256)
            /\ Pulled(Last, 3, (s + 3) % 256)
            /\ register.s = (s + 3) % 256
            /\ register.p = BitAnd(BitOr(Last.acc[1].value, 32), 239)
            /\ Bit(register.p, 4) = 0
            /\ register.pc = Last.acc[3].value * 256 + Last.acc[2].value
            /\ Last.cyc = 6

\* RTI with S = 0x00 has pulled P = 0xFF (B set) at 0x0101 and PC = 0x00FF
C21_Witness ==
    /\ HasLast
    /\ Ran(Last, "RTI")
    /\ Last.pre.s = 0
    /\ Last.acc[1].value = 255
    /\ register.p = 239
    /\ register.pc = 255
    /\ register.s = 3

\* C22: PHP pushes P | 0x30 and leaves P, A, X and Y as they were; PLP sets P
\* to the pulled byte with bit 5 set, B being that of the pulled byte.
C22_PhpPushesPlpPulls ==
    /\ (HasLast /\ Ran(Last, "PHP")) =>
          /\ Len(Last.acc) = 1
          /\ Pushed(Last, 1, Last.pre.s, BitOr(Last.pre.p, 48))
          /\ Bit(Last.acc[1].value, 4) = 1
          /\ Bit(Last.acc[1].value, 5) = 1
          /\ register.p = Last.pre.p
          /\ register.a = Last.pre.a
          /\ register.x = Last.pre.x
          /\ register.y = Last.pre.y
    /\ (HasLast /\ Ran(Last, "PLP")) =>
          /\ Len(Last.acc) = 1
          /\ Pulled(Last, 1, (Last.pre.s + 1) % 256)
          /\ register.p = BitOr(Last.acc[1].value, 32)
          /\ Bit(register.p, 4) = Bit(Last.acc[1].value, 4)

\* PHP with B clear in P = 0xEB has pushed 0xFB at 0x01FF and left P alone
C22_Witness ==
    /\ HasLast
    /\ Ran(Last, "PHP")
    /\ Last.pre.s = 255
    /\ Last.pre.p = 235
    /\ Rd(memory, 511) = 251
    /\ register.p = 235
    /\ register.s = 254

\* the operand byte of rec: the byte at the last index the step has read
Operand(rec) == Rd(memory, rec.idx[Len(rec.idx)])

CarryIn(rec) == Bit(rec.pre.p, 0)

DecimalMode(rec) == Bit(rec.pre.p, 3) = 1

SignedByte(v) == IF v > 127 THEN v - 256 ELSE v

\* C23: in binary mode add(a, b, c) returns (a + b + c) mod 256, carry iff
\* a + b + c >= 256 and overflow iff the sum of the operands as signed bytes
\* plus c lies outside -128..127.
C23_BinaryAdd ==
    (HasLast /\ Ran(Last, "ADC") /\ ~DecimalMode(Last)) =>
        LET a == Last.pre.a
            b == Operand(Last)
            c == CarryIn(Last)
            signed == SignedByte(a) + SignedByte(b) + c
        IN  /\ register.a = (a + b + c) % 256
            /\ carry_bit(register) <=> (a + b + c >= 256)
            /\ overflow_bit(register) <=> (signed < -128 \/ signed > 127)

\* ADC #$00 with A = 0xFF and C = 1: the carry in alone carries out
C23_Witness ==
    /\ HasLast
    /\ Ran(Last, "ADC")
    /\ Resolved(Last, "Immediate")
    /\ Last.pre.p = 33
    /\ Last.pre.a = 255
    /\ Operand(Last) = 0
    /\ register.a = 0
    /\ carry_bit(register)
    /\ ~overflow_bit(register)

\* C24: in binary mode subtract(a, b, c) returns (a - b - (1 - c)) mod 256 and
\* carry iff a >= b + (1 - c); in binary and in decimal mode its overflow is
\* set iff the difference of the operands as signed bytes minus (1 - c) lies
\* outside -128..127.
C24_BinarySubtract ==
    (HasLast /\ Ran(Last, "SBC")) =>
        LET a == Last.pre.a
            b == Operand(Last)
            borrow == 1 - CarryIn(Last)
            signed == SignedByte(a) - SignedByte(b) - borrow
        IN  /\ ~DecimalMode(Last) =>
                  /\ register.a = (a - b - borrow + 256) % 256
                  /\ carry_bit(register) <=> (a >= b + borrow)
            /\ overflow_bit(register) <=> (signed < -128 \/ signed > 127)

\* SBC #$01 with A = 0x01 and C = 0: the borrow alone goes below zero
C24_Witness ==
    /\ HasLast
    /\ Ran(Last, "SBC")
    /\ Resolved(Last, "Immediate")
    /\ Last.pre.p = 32
    /\ Last.pre.a = 1
    /\ Operand(Last) = 1
    /\ register.a = 255
    /\ ~carry_bit(register)
    /\ ~overflow_bit(register)

\* both nibbles of v are decimal digits
ValidBcd(v) == v % 16 <= 9 /\ v \div 16 <= 9

\* the number a packed-BCD byte stands for, and the byte of a number below 100
Dec(v) == 10 * (v \div 16) + (v % 16)

Bcd(n) == 16 * (n \div 10) + (n % 10)

\* C25: in decimal mode, for packed-BCD a and b, add(a, b, c) returns the
\* packed BCD of (dec(a) + dec(b) + c) mod 100 and carry iff the sum exceeds
\* 99; 0x15 + 0x27 gives 0x42 with C, Z, N and V clear.
C25_DecimalAdd ==
    (HasLast /\ Last.op = "step" /\ MnemonicOf(Last) = "ADC" /\ DecimalMode(Last)
       /\ ValidBcd(Last.pre.a) /\ ValidBcd(Operand(Last))) =>
        LET sum == Dec(Last.pre.a) + Dec(Operand(Last)) + CarryIn(Last)
        IN  /\ ~Last.panic
            /\ register.a = Bcd(sum % 100)
            /\ carry_bit(register) <=> (sum > 99)
            /\ (Last.pre.a = 21 /\ Operand(Last) = 39 /\ CarryIn(Last) = 0) =>
                  /\ register.a = 66
                  /\ ~zero_bit(register)
                  /\ ~negative_bit(register)
                  /\ ~overflow_bit(register)

\* decimal ADC #$27 with A = 0x15 and C = 0 has left A = 0x42
C25_Witness ==
    /\ HasLast
    /\ Ran(Last, "ADC")
    /\ Resolved(Last, "Immediate")
    /\ Last.pre.p = 40
    /\ Last.pre.a = 21
    /\ Operand(Last) = 39
    /\ register.a = 66
    /\ ~carry_bit(register)

\* C26: in decimal mode, for packed-BCD a and b, subtract(a, b, c) returns the
\* packed BCD of (dec(a) - dec(b) - (1 - c)) mod 100 and carry iff
\* dec(a) >= dec(b) + (1 - c).
C26_DecimalSubtract ==
    (HasLast /\ Last.op = "step" /\ MnemonicOf(Last) = "SBC" /\ DecimalMode(Last)
       /\ ValidBcd(Last.pre.a) /\ ValidBcd(Operand(Last))) =>
        LET borrow == 1 - CarryIn(Last)
            difference == Dec(Last.pre.a) - Dec(Operand(Last)) - borrow
        IN  /\ ~Last.panic
            /\ register.a = Bcd((difference + 100) % 100)
            /\ carry_bit(register) <=> (Dec(Last.pre.a) >= Dec(Operand(Last)) + borrow)

\* decimal SBC #$01 with A = 0x10 and C = 1 has left A = 0x09 with C set
C26_Witness ==
    /\ HasLast
    /\ Ran(Last, "SBC")
    /\ Resolved(Last, "Immediate")
    /\ Last.pre.p = 41
    /\ Last.pre.a = 16
    /\ Operand(Last) = 1
    /\ register.a = 9
    /\ carry_bit(register)

\* C27: in decimal mode add and subtract return for every pair of bytes,
\* packed BCD or not, and every carry in: no intermediate computation of
\* bcd_valid, bcd_tencomp, bcd_add or bcd_subtract leaves its width.
C27_DecimalNeverPanics ==
    (HasLast /\ Last.op = "step" /\ MnemonicOf(Last) \in {"ADC", "SBC"}
       /\ DecimalMode(Last)) => ~Last.panic

\* the register a compare instruction compares, as it was before the step
Compared(rec) ==
    CASE MnemonicOf(rec) = "CMP" -> rec.pre.a
      [] MnemonicOf(rec) = "CPX" -> rec.pre.x
      [] MnemonicOf(rec) = "CPY" -> rec.pre.y

\* C28: after CMP, CPX and CPY of register r with operand m, C = (r >= m),
\* Z = (r = m), N = bit 7 of (r - m) mod 256, whatever C and D were; A, X, Y,
\* S and the V, D, I and B bits of P are as before.
C28_CompareFlagsAndFrame ==
    (HasLast /\ Last.op = "step" /\ MnemonicOf(Last) \in {"CMP", "CPX", "CPY"}) =>
        LET r == Compared(Last)
            operand == Operand(Last)
        IN  /\ ~Last.panic
            /\ carry_bit(register) <=> (r >= operand)
            /\ zero_bit(register) <=> (r = operand)
            /\ negative_bit(register) <=> ((r - operand + 256) % 256 > 127)
            /\ register.a = Last.pre.a
            /\ register.x = Last.pre.x
            /\ register.y = Last.pre.y
            /\ register.s = Last.pre.s
            /\ \A i \in {2, 3, 4, 5, 6} : Bit(register.p, i) = Bit(Last.pre.p, i)

\* CMP #$80 with A = 0x80, C = 0 and D = 1 has set Z and C and left N clear
C28_Witness ==
    /\ HasLast
    /\ Ran(Last, "CMP")
    /\ Resolved(Last, "Immediate")
    /\ Last.pre.p = 40
    /\ Last.pre.a = 128
    /\ Operand(Last) = 128
    /\ register.p = 43
    /\ register.a = 128

\* the memory before the only step of a behaviour of SpecStep
PreMemory(rec) ==
    Seg(rec.pre.pc, <<rec.opcode, rec.arg[1], rec.arg[2]>>) @@ Background

\* memory and before hold the same byte at every address but those of except
SameBut(before, except) ==
    \A address \in ((DOMAIN memory) \cup (DOMAIN before)) \ except :
        Rd(memory, address) = Rd(before, address)

\* the effective address of a step that names a memory cell
EffectiveAddress(rec) == rec.idx[Len(rec.idx)]

\* C29: ROL produces ((v << 1) mod 256) | c with C = bit 7 of v, ROR produces
\* (v >> 1) | (c << 7) with C = bit 0 of v; N and Z are those of the rotated
\* byte; the accumulator form writes A only and costs 2 cycles, the memory
\* forms write only the byte at the effective address.
C29_RotateThroughCarry ==
    (HasLast /\ Last.op = "step" /\ MnemonicOf(Last) \in {"ROL", "ROR"}) =>
        LET in_a == ModeOf(Last) = "Accumulator"
            ea == EffectiveAddress(Last)
            before == PreMemory(Last)
            v == IF in_a THEN Last.pre.a ELSE Rd(before, ea)
            c == CarryIn(Last)
            left == MnemonicOf(Last) = "ROL"
            rotated == IF left THEN ((2 * v) % 256) + c ELSE (v \div 2) + 128 * c
        IN  /\ ~Last.panic
            /\ (IF in_a THEN register.a ELSE Rd(memory, ea)) = rotated
            /\ Bit(register.p, 0) = IF left THEN v \div 128 ELSE v % 2
            /\ zero_bit(register) <=> (rotated = 0)
            /\ negative_bit(register) <=> (rotated > 127)
            /\ register.x = Last.pre.x
            /\ register.y = Last.pre.y
            /\ register.s = Last.pre.s
            /\ IF in_a
               THEN Last.cyc = 2 /\ SameBut(before, {})
               ELSE register.a = Last.pre.a /\ SameBut(before, {ea})

\* ROR $80 with memory[0x80] = 0x99 and C = 1 has written 0xCC and set C
C29_Witness ==
    /\ HasLast
    /\ Ran(Last, "ROR")
    /\ Resolved(Last, "ZeroPage")
    /\ Last.pre.p = 33
    /\ Last.arg[1] = 128
    /\ Rd(PreMemory(Last), 128) = 153
    /\ Rd(memory, 128) = 204
    /\ carry_bit(register)
    /\ negative_bit(register)

\* the register a store writes out or a load fills
NamedRegister(mn) ==
    CASE mn \in {"STA", "LDA"} -> "a"
      [] mn \in {"STX", "LDX"} -> "x"
      [] mn \in {"STY", "LDY"} -> "y"

\* C30: STA, STX and STY change no memory byte but the one at the effective
\* address, which becomes A, X or Y, and leave P, A, X, Y and S unchanged;
\* LDA, LDX and LDY change only the named register, N, Z and PC, and no
\* memory byte.
C30_LoadStoreFrame ==
    /\ (HasLast /\ Last.op = "step" /\ MnemonicOf(Last) \in Stores) =>
          /\ ~Last.panic
          /\ Rd(memory, EffectiveAddress(Last)) = Last.pre[NamedRegister(MnemonicOf(Last))]
          /\ SameBut(PreMemory(Last), {EffectiveAddress(Last)})
          /\ \A f \in {"a", "x", "y", "s", "p"} : register[f] = Last.pre[f]
    /\ (HasLast /\ Last.op = "step" /\ MnemonicOf(Last) \in {"LDA", "LDX", "LDY"}) =>
          /\ ~Last.panic
          /\ register[NamedRegister(MnemonicOf(Last))] = Operand(Last)
          /\ SameBut(PreMemory(Last), {})
          /\ \A f \in {"a", "x", "y", "s"} \ {NamedRegister(MnemonicOf(Last))} :
                register[f] = Last.pre[f]
          /\ \A i \in 0..6 \ {1} : Bit(register.p, i) = Bit(Last.pre.p, i)

\* STY $FF,X with X = 0x36 and Y = 0x06 has written 0x06 over the 0x77 at
\* 0x0035 and left P alone
C30_Witness ==
    /\ HasLast
    /\ Ran(Last, "STY")
    /\ Resolved(Last, "ZeroPageX")
    /\ Last.arg[1] = 255
    /\ Last.pre.x = 54
    /\ Last.pre.y = 6
    /\ Rd(PreMemory(Last), 53) = 119
    /\ Rd(memory, 53) = 6
    /\ register.p = Last.pre.p

-----------------------------------------------------------------------------
(* The program counter, the effective address and the decode table *)

AddressingModes ==
    {"Implied", "Accumulator", "Immediate", "Relative", "ZeroPage", "ZeroPageX",
     "ZeroPageY", "IndirectX", "IndirectY", "Absolute", "AbsoluteX", "AbsoluteY",
     "Indirect"}

\* the number of operand bytes that follow the opcode in each addressing mode
OperandCount(mode) ==
    CASE mode \in {"Implied", "Accumulator"} -> 0
      [] mode \in {"Immediate", "Relative", "ZeroPage", "ZeroPageX", "ZeroPageY",
                   "IndirectX", "IndirectY"} -> 1
      [] mode \in {"Absolute", "AbsoluteX", "AbsoluteY", "Indirect"} -> 2

\* the instructions that load PC themselves
Jumps == {"JMP", "JSR", "RTS", "RTI", "BRK"}

\* rec is a step of an instruction which does not load PC
FallsThrough(rec) ==
    /\ rec.op = "step"
    /\ MnemonicOf(rec) \notin Jumps \cup {"NUL"}
    /\ ModeOf(rec) = "Relative" => ~BranchTaken(MnemonicOf(rec), rec.pre.p)

\* C31: a step on a legal opcode other than JMP, JSR, RTS, RTI, BRK and a
\* taken branch leaves PC = (PC before + 1 + n) mod 2^16, where n is the
\* number of operand bytes of the opcode's addressing mode, and n is the
\* bytes field the resolver of that mode reports.
C31_PcAdvancesByLength ==
    /\ \A mode \in AddressingModes :
           addressing_read(mode, memory, register, FALSE).cell.bytes
               = OperandCount(mode)
    /\ (HasLast /\ FallsThrough(Last)) =>
           /\ ~Last.panic
           /\ register.pc = (Last.pre.pc + 1 + OperandCount(ModeOf(Last))) % 65536

\* the 16-bit pointer whose two bytes lie in page zero at zp and zp + 1
PageZeroPointer(mem, zp) == Rd(mem, zp) + 256 * Rd(mem, (zp + 1) % 256)

\* cell is base + index in 16 bits, in bounds exactly when the sum has the
\* high byte of base
IndexedFrom(cell, base, index) ==
    /\ cell.address = (base + index) % 65536
    /\ cell.in_bounds <=> (cell.address \div 256 = base \div 256)

\* the operand bytes of the indexed-indirect cases
PointerOperands == {w % 256 : w \in Words}

\* the base to which the step rec added its index register
IndexBase(rec) ==
    IF ModeOf(rec) = "IndirectY"
    THEN PageZeroPointer(PreMemory(rec), rec.arg[1])
    ELSE ArgWord(rec)

IndexOf(rec) == IF ModeOf(rec) = "AbsoluteX" THEN rec.pre.x ELSE rec.pre.y

\* C32: in AbsoluteX, AbsoluteY and IndirectY the effective address is (base
\* + index) mod 2^16 and in_bounds is false exactly when its high byte differs
\* from the high byte of the base, the base of IndirectY being the pointer
\* read from page zero; base 0xFFFF with index 0x5B gives 0x005A with a page
\* crossing.
C32_IndexedAddressAndBounds ==
    /\ \A w \in Words :
           /\ IndexedFrom(absolute_x(memory, register, w), w, register.x)
           /\ IndexedFrom(absolute_y(memory, register, w), w, register.y)
    /\ \A zp \in PointerOperands :
           IndexedFrom(indirect_y(memory, register, zp),
                       PageZeroPointer(memory, zp), register.y)
    /\ (HasLast /\ Last.op = "step" /\ ~Last.panic /\ ModeOf(Last) \in Penalised
            /\ MnemonicOf(Last) # "NUL") =>
           EffectiveAddress(Last) = (IndexBase(Last) + IndexOf(Last)) % 65536
    /\ (register.x = 91 /\ register.y = 91) =>
           LET ax == absolute_x(memory, register, 65535)
               ay == absolute_y(memory, register, 65535)
           IN  /\ ax.address = 90 /\ ~ax.in_bounds
               /\ ay.address = 90 /\ ~ay.in_bounds

\* the opcodes the table decodes to an instruction
LegalOpcodes == {op \in 0..255 : opcodes[op].mn # "NUL"}

\* C33: the decode table has exactly 151 legal (non-NUL) entries, every legal
\* opcode maps to one (mnemonic, mode) pair, and no step, cold reset or warm
\* reset changes the table.
C33_DecodeTableFixed ==
    /\ opcodes = OPCODES
    /\ DOMAIN opcodes = 0..255
    /\ Cardinality(LegalOpcodes) = 151
    /\ \A op \in LegalOpcodes :
           /\ DOMAIN opcodes[op] = {"mn", "mode"}
           /\ opcodes[op].mode \in AddressingModes

\* a step and then a reset have run, as many resets as the bound allows
C33_Witness ==
    /\ HasPrev
    /\ Prev.op = "step"
    /\ ~Prev.panic
    /\ Last.op \in {"cold_reset", "warm_reset"}
    /\ resets = MaxResets
    /\ opcodes[169] = [mn |-> "LDA", mode |-> "Immediate"]

-----------------------------------------------------------------------------
(* Termination of step *)

\* the number of nested calls of bcd_add below the call bcd_add(a, b,
\* initial_carry): the function calls itself once, on (result, 0x01, false),
\* when initial_carry is set
RECURSIVE bcd_add_depth(_, _, _)
bcd_add_depth(a, b, initial_carry) ==
    IF initial_carry
    THEN 1 + bcd_add_depth(bcd_add(a, b, FALSE, FALSE).value, 1, FALSE)
    ELSE 0

\* the number of nested calls of bcd_subtract below bcd_subtract(a, b,
\* initial_carry): it calls itself once, on (result, 0x01, true), when
\* initial_carry is clear
RECURSIVE bcd_subtract_depth(_, _, _)
bcd_subtract_depth(a, b, initial_carry) ==
    IF ~initial_carry
    THEN 1 + bcd_subtract_depth(bcd_subtract(a, b, TRUE, FALSE).value, 1, TRUE)
    ELSE 0

\* C34: every call of step on a legal opcode terminates and returns; no
\* handler loops, and the recursion of bcd_add (carry in set) and of
\* bcd_subtract (carry in clear) is at most one level deep for every input.
C34_StepReturns ==
    /\ hist = <<>> =>
           \A c \in BOOLEAN :
               LET b == Rd(memory, U16(register.pc + 1))
               IN  /\ bcd_add_depth(register.a, b, c) = (IF c THEN 1 ELSE 0)
                   /\ bcd_subtract_depth(register.a, b, c) = (IF c THEN 0 ELSE 1)
    /\ (HasLast /\ Last.op = "step" /\ Last.opcode \in LegalOpcodes) =>
           /\ ~Last.panic
           /\ status = "running"
           /\ ret = "true"

\* C35: every step on a legal opcode increases the cycle counter by at least
\* 2 and at most 7, so the counter is strictly increasing along the steps;
\* cold_reset and warm_reset leave the counter unchanged.
C35_CyclesAdvance ==
    [][LET rec == hist'[Len(hist')]
       IN  /\ (rec.op = "step" /\ rec.opcode \in LegalOpcodes) =>
                  /\ cycles' - cycles \in 2..7
                  /\ cycles' > cycles
           /\ rec.op \in {"cold_reset", "warm_reset"} => cycles' = cycles]_vars

-----------------------------------------------------------------------------
(* Runs of several instructions from the state after Cpu::new *)

MaxDepth == 3

LifoBytes == {0, 1, 128, 255}

LifoStarts == {0, 1, 2, 3, 128, 255}

\* LDX #s; TXS; LDA #v1; PHA; ...; LDA #vk; PHA; PLA (k times)
LifoProgram(s, vs) ==
    <<162, s, 154>>
    \o [i \in 1..(3 * Len(vs)) |->
            CASE i % 3 = 1 -> 169
              [] i % 3 = 2 -> vs[(i + 1) \div 3]
              [] OTHER -> 72]
    \o [i \in 1..Len(vs) |-> 104]
    \o <<Halt>>

LifoImages ==
    { Seg(ProgramStart, LifoProgram(s, vs)) :
        s \in LifoStarts, vs \in UNION {[1..k -> LifoBytes] : k \in 1..MaxDepth} }

\* LDA #a; CLC or SEC; then ROL A, ROR A or ROR A, ROL A or nine times ROL A
RotateImages ==
    { Seg(ProgramStart, <<169, a, c>> \o body \o <<Halt>>) :
        a \in 0..255, c \in {24, 56},
        body \in {<<42, 106>>, <<106, 42>>, <<42, 42, 42, 42, 42, 42, 42, 42, 42>>} }

InitRun ==
    /\ memory \in LifoImages \cup RotateImages
    /\ register = Register_new
    /\ opcodes = OPCODES
    /\ cycles = 0
    /\ build \in {"debug", "release"}
    /\ status = "running"
    /\ ret = "none"
    /\ hist = <<>>
    /\ resets = 0

\* main.rs: while cpu.step() {}
SpecRun == InitRun /\ [][Step]_vars

\* the program in memory is one of LifoImages, with Depth pushes from S = S0
LifoImage == Rd(memory, ProgramStart) = 162

Depth == Cardinality({i \in 1..MaxDepth : Rd(memory, ProgramStart + 3 * i + 2) = 72})

S0 == Rd(memory, ProgramStart + 1)

\* the byte the i-th PHA pushes
PushedByte(i) == Rd(memory, ProgramStart + 3 * i + 1)

\* PC after the j-th PLA
AfterPla(j) == ProgramStart + 3 + 3 * Depth + j

\* C36: k PHA steps that push v1..vk followed by k PLA steps load A with
\* vk..v1 in that order and leave S at its initial value, also when S wraps
\* from 0x00 to 0xFF during the pushes.
C36_StackIsLifo ==
    LifoImage =>
        \A j \in 1..Depth :
            (HasLast /\ Last.op = "step" /\ register.pc = AfterPla(j)
                /\ status = "running") =>
                /\ Ran(Last, "PLA")
                /\ register.a = PushedByte(Depth - j + 1)
                /\ register.s = U8(S0 - (Depth - j))

\* 0x01, 0x80, 0xFF pushed from S = 0x01 (at 0x0101, 0x0100, 0x01FF) and
\* pulled again
C36_Witness ==
    /\ LifoImage
    /\ Depth = 3
    /\ S0 = 1
    /\ PushedByte(1) = 1 /\ PushedByte(2) = 128 /\ PushedByte(3) = 255
    /\ Rd(memory, 257) = 1 /\ Rd(memory, 256) = 128 /\ Rd(memory, 511) = 255
    /\ HasLast
    /\ Ran(Last, "PLA")
    /\ register.pc = AfterPla(3)
    /\ register.a = 1
    /\ register.s = 1

CarryOf(p) == Bit(p, 0)

InAccumulator(rec, mn) == Ran(rec, mn) /\ ModeOf(rec) = "Accumulator"

\* the program in memory is LDA #a; CLC or SEC; nine times ROL A
NineRols ==
    /\ Rd(memory, ProgramStart) = 169
    /\ \A i \in 3..11 : Rd(memory, ProgramStart + i) = 42

\* C39: ROL A followed by ROR A restores A and C, and so does ROR A followed
\* by ROL A; nine consecutive ROL A steps restore A and C.
C39_RotateRoundTrip ==
    /\ (HasPrev /\ InAccumulator(Prev, "ROL") /\ InAccumulator(Last, "ROR")) =>
           /\ register.a = Prev.pre.a
           /\ CarryOf(register.p) = CarryOf(Prev.pre.p)
    /\ (HasPrev /\ InAccumulator(Prev, "ROR") /\ InAccumulator(Last, "ROL")) =>
           /\ register.a = Prev.pre.a
           /\ CarryOf(register.p) = CarryOf(Prev.pre.p)
    /\ (NineRols /\ HasLast /\ Last.op = "step" /\ register.pc = ProgramStart + 12
            /\ status = "running") =>
           /\ InAccumulator(Last, "ROL")
           /\ register.a = Rd(memory, ProgramStart + 1)
           /\ CarryOf(register.p) = (IF Rd(memory, ProgramStart + 2) = 56 THEN 1 ELSE 0)

\* nine ROL A from A = 0x81 with C = 0 have passed through C = 1 and are back
C39_Witness ==
    /\ NineRols
    /\ HasPrev
    /\ InAccumulator(Prev, "ROL")
    /\ InAccumulator(Last, "ROL")
    /\ register.pc = ProgramStart + 12
    /\ Rd(memory, ProgramStart + 1) = 129
    /\ Rd(memory, ProgramStart + 2) = 24
    /\ Prev.pre.a = 160
    /\ Last.pre.a = 64
    /\ CarryOf(Last.pre.p) = 1
    /\ register.a = 129
    /\ CarryOf(register.p) = 0

-----------------------------------------------------------------------------
(* The bytes of memory a step writes *)

\* the addresses at which memory differs from before
Changed(before) ==
    {address \in (DOMAIN memory) \cup (DOMAIN before) :
        Rd(memory, address) # Rd(before, address)}

\* the n stack addresses from 0x0100 + s downwards, wrapping in the page
StackSlots(s, n) == {256 + ((s - i + 256) % 256) : i \in 0..(n - 1)}

\* the addresses the instruction of the step rec may write
Writable(rec) ==
    LET mn == MnemonicOf(rec)
    IN  CASE mn \in Stores -> {EffectiveAddress(rec)}
          [] mn \in ReadModifyWrite /\ ModeOf(rec) \in MemoryModes ->
                {EffectiveAddress(rec)}
          [] mn \in {"PHA", "PHP"} -> StackSlots(rec.pre.s, 1)
          [] mn = "JSR" -> StackSlots(rec.pre.s, 2)
          [] mn = "BRK" -> StackSlots(rec.pre.s, 3)
          [] OTHER -> {}

\* C37: a step writes memory only for STA, STX, STY, the memory forms of ASL,
\* LSR, ROL, ROR, INC and DEC (one byte, at the effective address), PHA and
\* PHP (one byte in the stack page), JSR (two bytes in the stack page) and
\* BRK (three bytes in the stack page); every other legal instruction leaves
\* all of memory unchanged.
C37_MemoryWriteFrame ==
    (HasLast /\ Last.op = "step" /\ Last.opcode \in LegalOpcodes) =>
        /\ Changed(PreMemory(Last)) \subseteq Writable(Last)
        /\ Writable(Last) \subseteq 0..(MemorySize - 1)
        /\ MnemonicOf(Last) \in {"PHA", "PHP", "JSR", "BRK"} =>
               Writable(Last) \subseteq 256..511

\* BRK with S = 0x01 has written three bytes, at 0x0101, 0x0100 and 0x01FF,
\* and nothing else
C37_Witness ==
    /\ HasLast
    /\ Ran(Last, "BRK")
    /\ Last.pre.s = 1
    /\ Changed(PreMemory(Last)) = {257, 256, 511}

-----------------------------------------------------------------------------
(* Binary subtraction as addition of the complement *)

\* C, Z, V and N of P as the outputs of the ALU name them
FlagsOf(p) ==
    [carry |-> Bit(p, 0) = 1, zero |-> Bit(p, 1) = 1, overflow |-> Bit(p, 6) = 1,
     negative |-> Bit(p, 7) = 1]

\* C38: in binary mode subtract(a, b, c, false) and add(a, b XOR 0xFF, c,
\* false) return the same value, carry, overflow, negative and zero outputs.
C38_SubtractIsAddOfComplement ==
    /\ hist = <<>> =>
           \A c \in BOOLEAN :
               LET b == Rd(memory, U16(register.pc + 1))
               IN  alu_subtract(register.a, b, c, FALSE, build = "debug")
                       = alu_add(register.a, BitXor(b, 255), c, FALSE, build = "debug")
    /\ (HasLast /\ Ran(Last, "SBC") /\ ~DecimalMode(Last)) =>
           LET sum == alu_add(Last.pre.a, BitXor(Operand(Last), 255),
                              CarryIn(Last) = 1, FALSE, build = "debug")
               flags == FlagsOf(register.p)
           IN  /\ ~sum.panic
               /\ register.a = sum.value
               /\ flags.carry = sum.carry
               /\ flags.overflow = sum.overflow
               /\ flags.negative = sum.negative
               /\ flags.zero = sum.zero

\* SBC #$01 with A = 0x80 and C = 1 gives 0x7F with C and V set, as 0x80 +
\* 0xFE + 1 does
C38_Witness ==
    /\ HasLast
    /\ Ran(Last, "SBC")
    /\ Resolved(Last, "Immediate")
    /\ ~DecimalMode(Last)
    /\ Last.pre.a = 128
    /\ Last.arg[1] = 1
    /\ CarryIn(Last) = 1
    /\ register.a = 127
    /\ FlagsOf(register.p) = [carry |-> TRUE, zero |-> FALSE, overflow |-> TRUE,
                              negative |-> FALSE]

-----------------------------------------------------------------------------
(* The two forms of the shifts and rotates *)

Shifts == {"ASL", "LSR", "ROL", "ROR"}

\* C40: ASL, LSR, ROL and ROR take the accumulator form exactly when the
\* resolved cell's cycles field is 0, and for every decode-table entry with
\* one of these mnemonics that field is 0 exactly when the mode is
\* Accumulator; so a memory form never writes A and the accumulator form
\* never writes memory.
C40_ShiftFormByCycles ==
    /\ hist = <<>> =>
           \A mode \in {opcodes[k].mode : k \in {k \in 0..255 : opcodes[k].mn \in Shifts}} :
               /\ mode \in {"Accumulator"} \cup MemoryModes
               /\ (addressing_read(mode, memory, register, FALSE).cell.cycles = 0)
                      <=> (mode = "Accumulator")
    /\ (HasLast /\ Last.op = "step" /\ MnemonicOf(Last) \in Shifts) =>
           /\ ~Last.panic
           /\ IF ModeOf(Last) = "Accumulator"
              THEN /\ Changed(PreMemory(Last)) = {}
                   /\ Last.cyc = 2
                   /\ Len(Last.idx) = 1
              ELSE /\ register.a = Last.pre.a
                   /\ Changed(PreMemory(Last)) \subseteq {EffectiveAddress(Last)}
                   /\ Last.cyc = 4 + ResolverCycles(ModeOf(Last))

\* LSR $FF,X with X = 0x36 has halved the 0x77 at 0x0035 and left A = 0x80
C40_Witness ==
    /\ HasLast
    /\ Ran(Last, "LSR")
    /\ Resolved(Last, "ZeroPageX")
    /\ Last.arg[1] = 255
    /\ Last.pre.x = 54
    /\ Last.pre.a = 128
    /\ register.a = 128
    /\ Changed(PreMemory(Last)) = {53}
    /\ Rd(memory, 53) = 59

====
